---- MODULE Spec2Model ----
(***************************************************************************)
(* A model of rmcl / rmapy: the API client's item graph and its refresh    *)
(* protocol (rmapy/api.py), the per-item content pipeline (rmcl/items.py,  *)
(* datacache.py, documentcache.py) and the FUSE adapter (fuse.py).         *)
(*                                                                         *)
(* Python objects live on a heap: a reference is the pair <<id, n>>, the   *)
(* n-th Item object built for that id.  None is written as a value of the  *)
(* field's own sort (NoDeadline, NoneId, NoType).                          *)
(***************************************************************************)
EXTENDS Integers, Sequences, FiniteSets, TLC

\* ------------------------------------------------------------------------
\* Bounds of the model
\* ------------------------------------------------------------------------
MaxVersion == 2     \* remote versions run 1..MaxVersion
MaxGen == 2         \* Item objects built per id
MaxClock == 6       \* minutes the clock may advance
MaxInode == 5       \* inodes the file system may hand out
MaxEntries == 2     \* files written to one archive

\* ------------------------------------------------------------------------
\* Program constants
\* ------------------------------------------------------------------------
ROOT_ID == ""
TRASH_ID == "trash"
FILE_LIST_VALIDITY == 5
DOCUMENT == "DocumentType"
FOLDER == "CollectionType"

NoneId == "<None>"        \* parent of the root: Python None
VIRTUAL == "VirtualFolder"
NoDeadline == -1          \* refresh_deadline = None

NoBlob == "<None>"        \* no contents: Python None (b"" is written "")
NoKey == <<>>             \* _cached_key = None
NoType == "<None>"        \* Item._type = None
NoSize == -1              \* the size of get_file_details when it is None
FileTypes == {"pdf", "epub", "notes", "unknown"}

\* Minutes a download URL stays valid after the metadata query that issued it.
UrlValidity == 4

\* A counter of requests that stops at 2: none, one, more than one.
Sat(n) == IF n >= 2 THEN 2 ELSE n

\* The clock is read in steps of half the validity window, rounded up.
TickStep == (FILE_LIST_VALIDITY + 1) \div 2

FolderIds == {"f"}
DocIds == {"d"}
Ids == FolderIds \cup DocIds
ItemIds == {"d", "e"}       \* the documents whose contents are read

TypeOf(id) == IF id \in FolderIds THEN FOLDER ELSE DOCUMENT

Tasks == {"t1", "t2"}
NoTask == "<none>"
NoCall == [op |-> "none", id |-> NoneId, waited |-> FALSE, dirty |-> FALSE]
NoResult == [op |-> "none", outcome |-> "none"]
NoReply == [op |-> "none"]

ROOT_INODE == 1           \* pyfuse3.ROOT_INODE
MODE_ID == "MODE_ID"      \* ModeFile.id
FSMode == {"meta", "raw", "orig"}

\* What an inode is bound to: an id, or (RmApiFS.lookup) an Item object.
IdVal(id_) == [kind |-> "id", id |-> id_, n |-> 0]
ObjVal(ref) == [kind |-> "obj", id |-> ref[1], n |-> ref[2]]

VARIABLES
    remote,             \* the server's metadata list, in the order it is served
    clock,              \* now(), in minutes
    heap,               \* reference -> Item object
    gen,                \* id -> number of Item objects built for it so far
    by_id,              \* Client.by_id: id -> reference
    keys,               \* insertion order of the dict Client.by_id
    refresh_deadline,   \* Client.refresh_deadline
    update_lock,        \* Client.update_lock: its owner and the tasks parked on it
    pc,                 \* task -> where the task stands in the call it runs
    call,               \* task -> the call it runs and what it has seen so far
    result,             \* task -> how its last call ended
    listSinceInvalid,   \* list requests sent since the deadline last became invalid
    dirty,              \* a mutation has completed and no list request was sent since
    datacache,          \* the filedata table: <<id, version, property>> -> value
    doc_slot,           \* documentcache: _cached_key and _cached_value
    reply,              \* what the last call on an item or on the file system returned
    inode_map,          \* RmApiFS.inode_map: inode -> what it is bound to
    next_inode,         \* RmApiFS._next_inode
    mode,               \* RmApiFS.mode
    fs,                 \* the byte stream ZipEntry.from_stream reads, and its position
    written,            \* what the stream was made from, and where it was cut
    entries,            \* what the calls of ZipEntry.from_stream returned so far
    locks,              \* Item._lock of the objects whose lock is held: owner, waiters
    client              \* api._client and the tokens of the Client it holds

envVars == <<remote, clock>>
graphVars == <<heap, gen, by_id, keys>>
taskVars == <<update_lock, pc, call, result, listSinceInvalid, dirty>>
cacheVars == <<datacache, doc_slot, reply>>
fsVars == <<inode_map, next_inode, mode>>
zipVars == <<fs, written, entries>>
asyncVars == <<locks, client>>

vars ==
    <<envVars, graphVars, refresh_deadline, taskVars, cacheVars, fsVars, zipVars,
      asyncVars>>

\* No archive was written yet; a stream that was not truncated.
NoCut == -1
NoArchive == [file_data |-> <<>>, algo |-> -1, cut |-> NoCut]

\* _client = None
NoClient == [built |-> 0, devicetoken |-> FALSE, usertoken |-> "", renewed |-> FALSE]

\* ------------------------------------------------------------------------
\* Items
\* ------------------------------------------------------------------------
RootRef == <<ROOT_ID, 0>>
TrashRef == <<TRASH_ID, 0>>

\* datacache.get_property matching the id and the property only: it returns
\* what any version of the item left in the store.
get_property_any_version(cache, id_, version, property_, none) ==
    IF \E k \in DOMAIN cache : k[1] = id_ /\ k[3] = property_
    THEN cache[CHOOSE k \in DOMAIN cache : k[1] = id_ /\ k[3] = property_]
    ELSE none

\* datacache.get_property: the stored value, or None (written as none).
get_property(cache, id_, version, property_, none) ==
    IF <<id_, version, property_>> \in DOMAIN cache
    THEN cache[<<id_, version, property_>>]
    ELSE none

\* datacache.set_property: INSERT OR REPLACE
set_property(cache, id_, version, property_, value) ==
    [k \in DOMAIN cache \cup {<<id_, version, property_>>} |->
        IF k = <<id_, version, property_>> THEN value ELSE cache[k]]

\* FileType[name], None on KeyError
FileTypeOf(name) == IF name \in FileTypes THEN name ELSE NoType

\* The fields every Item object has.  heads, ranges, gets and kept count the
\* requests made for the object while it has its present version: HEADs,
\* range GETs, blob GETs, and blob GETs since the document cache was last
\* given the object's blob (that one included).
VirtualFolder(name, id_, parent_id) ==
    [id |-> id_, version |-> 0, parent |-> parent_id, type |-> VIRTUAL,
     children |-> <<>>, BlobURLGet |-> "", BlobURLGetExpires |-> 0,
     raw_size |-> 0, size |-> 0, ftype |-> NoType,
     heads |-> 0, ranges |-> 0, gets |-> 0, kept |-> 0]

\* Item.from_metadata: a Document or a Folder holding the metadata, its lazy
\* fields read from the data cache (Item.__init__).
from_metadata(metadata) ==
    [id |-> metadata.ID, version |-> metadata.Version,
     parent |-> metadata.Parent, type |-> metadata.Type,
     children |-> <<>>, BlobURLGet |-> "", BlobURLGetExpires |-> 0,
     raw_size |-> get_property(datacache, metadata.ID, metadata.Version, "raw_size", 0),
     size |-> get_property(datacache, metadata.ID, metadata.Version, "size", 0),
     ftype |-> FileTypeOf(get_property(datacache, metadata.ID, metadata.Version,
                                       "type", NoType)),
     heads |-> 0, ranges |-> 0, gets |-> 0, kept |-> 0]

IsFolder(item) == item.type \in {FOLDER, VIRTUAL}

\* ------------------------------------------------------------------------
\* Sequence helpers
\* ------------------------------------------------------------------------
Range(s) == {s[i] : i \in DOMAIN s}

RECURSIVE Without(_, _)
Without(s, drop) ==
    IF s = <<>> THEN <<>>
    ELSE IF Head(s) \in drop THEN Without(Tail(s), drop)
         ELSE <<Head(s)>> \o Without(Tail(s), drop)

InsertAt(s, i, x) == SubSeq(s, 1, i) \o <<x>> \o SubSeq(s, i + 1, Len(s))

Count(s, x) == Cardinality({i \in DOMAIN s : s[i] = x})

\* ------------------------------------------------------------------------
\* Client.update_items, after the list response has been decoded
\* ------------------------------------------------------------------------
\* MergeItem without the branch that empties the children of a folder it keeps.
MergeItemKeepsChildren(s, item) ==
    LET has == item.ID \in DOMAIN s.by_id
        old_ids == IF has THEN s.old_ids \ {item.ID} ELSE s.old_ids
        fresh == ~has \/ s.heap[s.by_id[item.ID]].version # item.Version
        ref == <<item.ID, s.gen[item.ID] + 1>>
    IN IF fresh THEN
         [s EXCEPT !.old_ids = old_ids,
                   !.heap = [r \in DOMAIN s.heap \cup {ref} |->
                               IF r = ref THEN from_metadata(item)
                               ELSE s.heap[r]],
                   !.gen = [s.gen EXCEPT ![item.ID] = @ + 1],
                   !.by_id = [k \in DOMAIN s.by_id \cup {item.ID} |->
                               IF k = item.ID THEN ref ELSE s.by_id[k]],
                   !.keys = IF has THEN s.keys ELSE Append(s.keys, item.ID)]
       ELSE [s EXCEPT !.old_ids = old_ids]

\* MergeItem without old_ids.remove(old.id): an id the list names again is
\* still counted among the ids to delete.
MergeItemForgetsSeen(s, item) ==
    LET has == item.ID \in DOMAIN s.by_id
        fresh == ~has \/ s.heap[s.by_id[item.ID]].version # item.Version
        ref == <<item.ID, s.gen[item.ID] + 1>>
    IN IF fresh THEN
         [s EXCEPT !.heap = [r \in DOMAIN s.heap \cup {ref} |->
                               IF r = ref THEN from_metadata(item)
                               ELSE s.heap[r]],
                   !.gen = [s.gen EXCEPT ![item.ID] = @ + 1],
                   !.by_id = [k \in DOMAIN s.by_id \cup {item.ID} |->
                               IF k = item.ID THEN ref ELSE s.by_id[k]],
                   !.keys = IF has THEN s.keys ELSE Append(s.keys, item.ID)]
       ELSE IF IsFolder(s.heap[s.by_id[item.ID]]) THEN
         [s EXCEPT !.heap = [s.heap EXCEPT ![s.by_id[item.ID]].children = <<>>]]
       ELSE s

\* MergeItem without the comparison of versions: every item of the list is
\* built anew.
MergeItemAlwaysBuilds(s, item) ==
    LET has == item.ID \in DOMAIN s.by_id
        old_ids == IF has THEN s.old_ids \ {item.ID} ELSE s.old_ids
        ref == <<item.ID, s.gen[item.ID] + 1>>
    IN [s EXCEPT !.old_ids = old_ids,
                 !.heap = [r \in DOMAIN s.heap \cup {ref} |->
                             IF r = ref THEN from_metadata(item)
                             ELSE s.heap[r]],
                 !.gen = [s.gen EXCEPT ![item.ID] = @ + 1],
                 !.by_id = [k \in DOMAIN s.by_id \cup {item.ID} |->
                             IF k = item.ID THEN ref ELSE s.by_id[k]],
                 !.keys = IF has THEN s.keys ELSE Append(s.keys, item.ID)]

\* One round of the loop over response_json (api.py 197-204), with the
\* bookkeeping of old_ids.
MergeItem(s, item) ==
    LET has == item.ID \in DOMAIN s.by_id
        old_ids == IF has THEN s.old_ids \ {item.ID} ELSE s.old_ids
        fresh == ~has \/ s.heap[s.by_id[item.ID]].version # item.Version
        ref == <<item.ID, s.gen[item.ID] + 1>>
    IN IF fresh THEN
         [s EXCEPT !.old_ids = old_ids,
                   !.heap = [r \in DOMAIN s.heap \cup {ref} |->
                               IF r = ref THEN from_metadata(item)
                               ELSE s.heap[r]],
                   !.gen = [s.gen EXCEPT ![item.ID] = @ + 1],
                   !.by_id = [k \in DOMAIN s.by_id \cup {item.ID} |->
                               IF k = item.ID THEN ref ELSE s.by_id[k]],
                   !.keys = IF has THEN s.keys ELSE Append(s.keys, item.ID)]
       ELSE IF IsFolder(s.heap[s.by_id[item.ID]]) THEN
         [s EXCEPT !.old_ids = old_ids,
                   !.heap = [s.heap EXCEPT ![s.by_id[item.ID]].children = <<>>]]
       ELSE [s EXCEPT !.old_ids = old_ids]

RECURSIVE MergeList(_, _)
MergeList(s, list) ==
    IF list = <<>> THEN s
    ELSE MergeList(MergeItem(s, Head(list)), Tail(list))

\* The loop that appends every item to its parent's children (api.py 209-211),
\* walking by_id.values() in dict order.  A parent that is not a key raises
\* KeyError and leaves the lists as far as they were built.
RECURSIVE LinkChildren(_, _)
LinkChildren(s, todo) ==
    IF todo = <<>> \/ s.err # "ok" THEN s
    ELSE
      LET ref == s.by_id[Head(todo)]
          p == s.heap[ref].parent
      IN IF p = NoneId THEN LinkChildren(s, Tail(todo))
         ELSE IF p \notin DOMAIN s.by_id THEN [s EXCEPT !.err = "KeyError"]
         ELSE LinkChildren(
                [s EXCEPT !.heap = [s.heap EXCEPT ![s.by_id[p]].children =
                                        Append(@, ref)]],
                Tail(todo))

\* old_ids taken to be every key of by_id, the two virtual folders included.
OldIdsAll(map) == DOMAIN map

\* old_ids = set(self.by_id) - {'', 'trash'}
OldIds(map) == (DOMAIN map) \ {ROOT_ID, TRASH_ID}

\* Lines 193-211 on the decoded list: the new heap, gen, by_id and keys, and
\* err = "ok" or the exception that ended the call.
update_items(list) ==
    LET s0 == [heap |-> [heap EXCEPT ![by_id[ROOT_ID]].children = <<>>,
                                     ![by_id[TRASH_ID]].children = <<>>],
               gen |-> gen, by_id |-> by_id, keys |-> keys,
               old_ids |-> OldIds(by_id),
               err |-> "ok"]
        s1 == MergeList(s0, list)
        s2 == [s1 EXCEPT !.by_id = [k \in DOMAIN s1.by_id \ s1.old_ids |-> s1.by_id[k]],
                         !.keys = Without(s1.keys, s1.old_ids)]
    IN LinkChildren(s2, s2.keys)

\* Objects nothing refers to any more are collected.
Live(s) == {s.by_id[k] : k \in DOMAIN s.by_id}

Collect(s) == [r \in Live(s) |-> s.heap[r]]

\* New Item objects the list would build.
Builds(list) ==
    {i \in DOMAIN list :
        \/ list[i].ID \notin DOMAIN by_id
        \/ heap[by_id[list[i].ID]].version # list[i].Version}

CanBuild(list) == \A i \in Builds(list) : gen[list[i].ID] < MaxGen

\* ------------------------------------------------------------------------
\* The remote store: a tree of folders and documents with unique ids
\* ------------------------------------------------------------------------
Listed == {remote[i].ID : i \in DOMAIN remote}

Entry(id) == remote[CHOOSE i \in DOMAIN remote : remote[i].ID = id]

RECURSIVE Ancestors(_, _)
Ancestors(id, fuel) ==
    IF fuel = 0 \/ id \notin Listed THEN {}
    ELSE {Entry(id).Parent} \cup Ancestors(Entry(id).Parent, fuel - 1)

\* Parents an entry for id may name: the root, the trash, or a listed folder
\* that is not below id.
ParentsFor(id) ==
    {ROOT_ID, TRASH_ID} \cup
    {p \in (Listed \cap FolderIds) \ {id} : id \notin Ancestors(p, Cardinality(Ids))}

RemoteAdd(id, parent, version, pos) ==
    /\ id \notin Listed
    /\ parent \in ParentsFor(id)
    /\ remote' = InsertAt(remote, pos,
                          [ID |-> id, Version |-> version, Type |-> TypeOf(id),
                           Parent |-> parent])
    /\ UNCHANGED <<clock, graphVars, refresh_deadline, taskVars, cacheVars, fsVars, zipVars, asyncVars>>

RemoteRemove(id) ==
    /\ id \in Listed
    /\ \A i \in DOMAIN remote : remote[i].Parent # id
    /\ remote' = SelectSeq(remote, LAMBDA m : m.ID # id)
    /\ UNCHANGED <<clock, graphVars, refresh_deadline, taskVars, cacheVars, fsVars, zipVars, asyncVars>>

\* A remote mutation (rename, move, new content) bumps the version.
RemoteBump(id, parent) ==
    /\ id \in Listed
    /\ Entry(id).Version < MaxVersion
    /\ parent \in ParentsFor(id)
    /\ remote' = [i \in DOMAIN remote |->
                    IF remote[i].ID = id
                    THEN [remote[i] EXCEPT !.Version = @ + 1, !.Parent = parent]
                    ELSE remote[i]]
    /\ UNCHANGED <<clock, graphVars, refresh_deadline, taskVars, cacheVars, fsVars, zipVars, asyncVars>>

Tick ==
    /\ clock + TickStep <= MaxClock
    /\ clock' = clock + TickStep
    /\ UNCHANGED <<remote, graphVars, refresh_deadline, taskVars, cacheVars, fsVars, zipVars, asyncVars>>

\* ------------------------------------------------------------------------
\* Client.__init__
\* ------------------------------------------------------------------------
Init ==
    /\ remote = <<>>
    /\ clock = 0
    /\ heap = [r \in {RootRef, TrashRef} |->
                 IF r = RootRef THEN VirtualFolder("", ROOT_ID, NoneId)
                 ELSE VirtualFolder(".trash", TRASH_ID, ROOT_ID)]
    /\ gen = [i \in Ids \cup ItemIds |-> 0]
    /\ by_id = [k \in {ROOT_ID, TRASH_ID} |->
                  IF k = ROOT_ID THEN RootRef ELSE TrashRef]
    /\ keys = <<ROOT_ID, TRASH_ID>>
    /\ refresh_deadline = NoDeadline
    /\ update_lock = [owner |-> NoTask, waiters |-> <<>>]
    /\ pc = [t \in Tasks |-> "idle"]
    /\ call = [t \in Tasks |-> NoCall]
    /\ result = [t \in Tasks |-> NoResult]
    /\ listSinceInvalid = 0
    /\ dirty = FALSE
    /\ datacache = <<>>
    /\ doc_slot = [key |-> NoKey, value |-> NoBlob]
    /\ reply = NoReply
    /\ inode_map = (ROOT_INODE :> IdVal(ROOT_ID)) @@ (ROOT_INODE + 1 :> IdVal(MODE_ID))
    /\ next_inode = ROOT_INODE + 2
    /\ mode = "raw"
    /\ fs = [data |-> <<>>, pos |-> 0]
    /\ written = NoArchive
    /\ entries = <<>>
    /\ locks = <<>>
    /\ client = NoClient

\* ------------------------------------------------------------------------
\* Sequential refreshes of the item graph
\* ------------------------------------------------------------------------
\* not self.refresh_deadline or now() > self.refresh_deadline
Invalid(deadline, now) == deadline = NoDeadline \/ now > deadline

\* The deadline test with its condition dropped.
ExpiredAlways == TRUE

Expired == Invalid(refresh_deadline, clock)

\* get_by_id with nobody else running: the refresh it starts, with the list
\* request answered by the remote's current list.
Refresh ==
    /\ Expired
    /\ CanBuild(remote)
    /\ LET s == update_items(remote)
       IN /\ s.err = "ok"
          /\ heap' = Collect(s)
          /\ gen' = s.gen
          /\ by_id' = s.by_id
          /\ keys' = s.keys
    /\ refresh_deadline' = clock + FILE_LIST_VALIDITY
    /\ UNCHANGED <<envVars, taskVars, cacheVars, fsVars, zipVars, asyncVars>>

\* Item.invalidate_cache
Invalidate ==
    /\ refresh_deadline # NoDeadline
    /\ refresh_deadline' = NoDeadline
    /\ UNCHANGED <<envVars, graphVars, taskVars, cacheVars, fsVars, zipVars, asyncVars>>

NextGraph ==
    \/ \E id \in Ids, p \in Ids \cup {ROOT_ID, TRASH_ID}, v \in 1..MaxVersion,
          pos \in {0, Len(remote)} : RemoteAdd(id, p, v, pos)
    \/ \E id \in Ids : RemoteRemove(id)
    \/ \E id \in Ids, p \in Ids \cup {ROOT_ID, TRASH_ID} : RemoteBump(id, p)
    \/ Refresh
    \/ Invalidate

SpecGraph == Init /\ [][NextGraph]_vars

\* ------------------------------------------------------------------------
\* update_items and the responses to its list request
\* ------------------------------------------------------------------------
\* The body of a list response: not JSON, a JSON object with members (an
\* error report), or the JSON array of the metadata of the remote items.
ListBodies == {"not_json", "object", "array"}

ListStatuses == {200, 500}

\* Client.update_items, called whatever the deadline is.  The status of the
\* response is not looked at; a body that is not JSON raises ApiError before
\* the graph is touched; a JSON object gets as far as item['ID'] on its first
\* member name, a str, which raises TypeError after the children of root and
\* trash were cleared.
UpdateItems(status, body) ==
    LET done(s) ==
            /\ heap' = Collect(s)
            /\ gen' = s.gen
            /\ by_id' = s.by_id
            /\ keys' = s.keys
            /\ refresh_deadline' =
                  IF s.err = "ok" THEN clock + FILE_LIST_VALIDITY ELSE refresh_deadline
            /\ reply' = [op |-> "update_items", status |-> status, body |-> body,
                         err |-> s.err]
    IN /\ IF body = "array"
          THEN CanBuild(remote) /\ done(update_items(remote))
          ELSE /\ heap' = IF body = "not_json" THEN heap
                          ELSE [heap EXCEPT ![by_id[ROOT_ID]].children = <<>>,
                                            ![by_id[TRASH_ID]].children = <<>>]
               /\ reply' = [op |-> "update_items", status |-> status, body |-> body,
                            err |-> IF body = "not_json" THEN "ApiError"
                                    ELSE "TypeError"]
               /\ UNCHANGED <<gen, by_id, keys, refresh_deadline>>
       /\ UNCHANGED <<envVars, taskVars, datacache, doc_slot, fsVars, zipVars, asyncVars>>

NextList ==
    \/ \E id \in Ids, v \in 1..MaxVersion : RemoteAdd(id, ROOT_ID, v, Len(remote))
    \/ \E id \in DocIds : RemoteAdd(id, TRASH_ID, 1, 0)
    \/ \E id \in Ids : RemoteRemove(id)
    \/ Tick
    \/ \E status \in ListStatuses, body \in ListBodies : UpdateItems(status, body)

SpecList == Init /\ [][NextList]_vars

\* ------------------------------------------------------------------------
\* Concurrent tasks on one Client: get_by_id and the mutating calls
\* ------------------------------------------------------------------------
\* No release: the lock stays with its owner.
KeepLock == update_lock

\* trio.Lock.release: the lock goes to the task parked longest, if any.
ReleaseLock ==
    IF update_lock.waiters = <<>> THEN [owner |-> NoTask, waiters |-> <<>>]
    ELSE [owner |-> Head(update_lock.waiters), waiters |-> Tail(update_lock.waiters)]

\* Where a task parked on update_lock goes on when it is handed the lock: in
\* the get_by_id it called itself, or in the one Item.delete called for it.
Locked(u) == IF call[u].op = "Item.delete" THEN "del_locked" ELSE "gbi_locked"

\* t leaves with the lock released; the task that was handed the lock wakes up
\* holding it.
LeaveLock(t, next) ==
    [u \in Tasks |->
        IF u = t THEN next
        ELSE IF update_lock.waiters # <<>> /\ u = Head(update_lock.waiters)
             THEN Locked(u)
             ELSE pc[u]]

\* return self.by_id[id_]
Lookup(map, id) ==
    IF id \in DOMAIN map THEN [outcome |-> "ok", ref |-> map[id]]
    ELSE [outcome |-> "KeyError", ref |-> RootRef]

\* get_by_id, entering "async with self.update_lock".
CallGetById(t, id) ==
    /\ pc[t] = "idle"
    /\ call' = [call EXCEPT ![t] =
                  [op |-> "get_by_id", id |-> id,
                   waited |-> update_lock.owner # NoTask, dirty |-> dirty]]
    /\ IF update_lock.owner = NoTask
       THEN /\ update_lock' = [owner |-> t, waiters |-> <<>>]
            /\ pc' = [pc EXCEPT ![t] = "gbi_locked"]
       ELSE /\ update_lock' = [update_lock EXCEPT !.waiters = Append(@, t)]
            /\ pc' = [pc EXCEPT ![t] = "gbi_wait"]
    /\ result' = [result EXCEPT ![t] = NoResult]
    /\ UNCHANGED <<envVars, graphVars, refresh_deadline, listSinceInvalid, dirty, cacheVars, fsVars, zipVars, asyncVars>>

\* get_by_id holding the lock: the deadline is valid, the lock is released
\* and the item returned.
GetByIdFresh(t) ==
    /\ pc[t] = "gbi_locked"
    /\ ~Expired
    /\ update_lock' = ReleaseLock
    /\ pc' = LeaveLock(t, "idle")
    /\ result' = [result EXCEPT ![t] =
                    [op |-> "get_by_id", outcome |-> Lookup(by_id, call[t].id).outcome,
                     invalid |-> Expired, waited |-> call[t].waited,
                     listed |-> FALSE, stale |-> call[t].dirty /\ dirty]]
    /\ call' = [call EXCEPT ![t] = NoCall]
    /\ UNCHANGED <<envVars, graphVars, refresh_deadline, listSinceInvalid, dirty, cacheVars, fsVars, zipVars, asyncVars>>

\* get_by_id holding the lock: the deadline is absent or passed, update_items
\* sends the list request.
GetByIdRefresh(t) ==
    /\ pc[t] = "gbi_locked"
    /\ Expired
    /\ pc' = [pc EXCEPT ![t] = "gbi_list"]
    /\ listSinceInvalid' = listSinceInvalid + 1
    /\ dirty' = FALSE
    /\ UNCHANGED <<envVars, graphVars, refresh_deadline, update_lock, call, result, cacheVars, fsVars, zipVars, asyncVars>>

\* The list response is a JSON array: update_items rebuilds the graph and
\* sets the deadline, get_by_id releases the lock and returns the item.
ListResponseOk(t) ==
    /\ pc[t] = "gbi_list"
    /\ CanBuild(remote)
    /\ LET s == update_items(remote)
           got == Lookup(s.by_id, call[t].id)
       IN /\ heap' = Collect(s)
          /\ gen' = s.gen
          /\ by_id' = s.by_id
          /\ keys' = s.keys
          /\ refresh_deadline' =
                IF s.err = "ok" THEN clock + FILE_LIST_VALIDITY ELSE refresh_deadline
          /\ listSinceInvalid' = IF s.err = "ok" THEN listSinceInvalid ELSE 0
          /\ result' = [result EXCEPT ![t] =
                          [op |-> "get_by_id",
                           outcome |-> IF s.err = "ok" THEN got.outcome ELSE s.err,
                           invalid |-> Invalid(refresh_deadline', clock),
                           waited |-> call[t].waited,
                           listed |-> TRUE, stale |-> FALSE]]
    /\ update_lock' = ReleaseLock
    /\ pc' = LeaveLock(t, "idle")
    /\ call' = [call EXCEPT ![t] = NoCall]
    /\ UNCHANGED <<envVars, dirty, cacheVars, fsVars, zipVars, asyncVars>>

\* The list response is not JSON: update_items raises ApiError before it
\* touches the graph; the lock is released on the way out.
ListResponseBad(t) ==
    /\ pc[t] = "gbi_list"
    /\ update_lock' = ReleaseLock
    /\ pc' = LeaveLock(t, "idle")
    /\ listSinceInvalid' = 0
    /\ result' = [result EXCEPT ![t] =
                    [op |-> "get_by_id", outcome |-> "ApiError",
                     invalid |-> Expired, waited |-> call[t].waited,
                     listed |-> TRUE, stale |-> FALSE]]
    /\ call' = [call EXCEPT ![t] = NoCall]
    /\ UNCHANGED <<envVars, graphVars, refresh_deadline, dirty, cacheVars, fsVars, zipVars, asyncVars>>

\* The task is cancelled while update_items awaits the list response
\* (api.py 185): trio.Cancelled leaves update_items before the graph or the
\* deadline is touched, and "async with" releases the lock on the way out.
CancelListRequest(t) ==
    /\ pc[t] = "gbi_list"
    /\ update_lock' = ReleaseLock
    /\ pc' = LeaveLock(t, "idle")
    /\ listSinceInvalid' = 0
    /\ result' = [result EXCEPT ![t] =
                    [op |-> "get_by_id", outcome |-> "Cancelled",
                     invalid |-> Expired, waited |-> call[t].waited,
                     listed |-> TRUE, stale |-> FALSE]]
    /\ call' = [call EXCEPT ![t] = NoCall]
    /\ UNCHANGED <<envVars, graphVars, refresh_deadline, dirty, cacheVars, fsVars, zipVars, asyncVars>>

\* The task is cancelled while parked on update_lock (api.py 216): it leaves
\* the queue of the lock without ever holding it.
CancelLockWait(t) ==
    /\ pc[t] = "gbi_wait"
    /\ update_lock' = [update_lock EXCEPT !.waiters = Without(@, {t})]
    /\ pc' = [pc EXCEPT ![t] = "idle"]
    /\ result' = [result EXCEPT ![t] =
                    [op |-> "get_by_id", outcome |-> "Cancelled",
                     invalid |-> Expired, waited |-> call[t].waited,
                     listed |-> FALSE, stale |-> FALSE]]
    /\ call' = [call EXCEPT ![t] = NoCall]
    /\ UNCHANGED <<envVars, graphVars, refresh_deadline, listSinceInvalid, dirty,
                   cacheVars, fsVars, zipVars, asyncVars>>

\* Responses to the PUT requests of the mutating calls.
PutResponses ==
    {[status_code |-> 200, json |-> <<[Success |-> TRUE, BlobURLPut |-> "put"]>>],
     [status_code |-> 200, json |-> <<[Success |-> TRUE]>>],
     [status_code |-> 200, json |-> <<[Success |-> FALSE, Message |-> "no"]>>],
     [status_code |-> 200, json |-> <<>>],
     [status_code |-> 500, json |-> <<>>]}

\* Client.check_response
check_response(response) ==
    IF response.status_code >= 400 THEN "ApiError"
    ELSE IF Len(response.json) = 0 THEN "ApiError"
    ELSE IF ~response.json[1].Success THEN "ApiError"
    ELSE "ok"

Mutating == {"delete", "update_metadata", "upload"}

\* Client.delete, Client.update_metadata and Client.upload send their first
\* request.
CallMutation(t, op, id) ==
    /\ pc[t] = "idle"
    /\ op \in Mutating
    /\ id \in (DOMAIN by_id) \ {ROOT_ID, TRASH_ID}
    /\ call' = [call EXCEPT ![t] =
                  [op |-> op, id |-> id, waited |-> FALSE, dirty |-> dirty]]
    /\ pc' = [pc EXCEPT ![t] =
                IF op = "delete" THEN "del_put"
                ELSE IF op = "update_metadata" THEN "upd_put" ELSE "upl_request"]
    /\ result' = [result EXCEPT ![t] = NoResult]
    /\ UNCHANGED <<envVars, graphVars, refresh_deadline, update_lock,
                   listSinceInvalid, dirty, cacheVars, fsVars, zipVars, asyncVars>>

\* How a mutating call ends: with the outcome and the deadline at that moment.
Ended(t, outcome, deadline) ==
    [result EXCEPT ![t] =
        [op |-> call[t].op, outcome |-> outcome,
         absent |-> deadline = NoDeadline]]

\* Client.delete after its request has been answered (api.py 269-271).
DeleteResponse(t, response) ==
    /\ pc[t] = "del_put"
    /\ refresh_deadline' = NoDeadline
    /\ listSinceInvalid' = 0
    /\ result' = Ended(t, check_response(response), refresh_deadline')
    /\ dirty' = (dirty \/ check_response(response) = "ok")
    /\ pc' = [pc EXCEPT ![t] = "idle"]
    /\ call' = [call EXCEPT ![t] = NoCall]
    /\ UNCHANGED <<envVars, graphVars, update_lock, cacheVars, fsVars, zipVars, asyncVars>>

\* Client.update_metadata after its request has been answered (api.py 290-292),
\* called directly or as the last step of upload.
UpdateMetadataResponse(t, response) ==
    /\ pc[t] = "upd_put"
    /\ refresh_deadline' = NoDeadline
    /\ listSinceInvalid' = 0
    /\ result' = Ended(t, check_response(response), refresh_deadline')
    /\ dirty' = (dirty \/ check_response(response) = "ok")
    /\ pc' = [pc EXCEPT ![t] = "idle"]
    /\ call' = [call EXCEPT ![t] = NoCall]
    /\ UNCHANGED <<envVars, graphVars, update_lock, cacheVars, fsVars, zipVars, asyncVars>>

\* Client.upload after the upload request has been answered (api.py 301-307).
UploadRequestResponse(t, response) ==
    /\ pc[t] = "upl_request"
    /\ IF /\ check_response(response) = "ok"
          /\ "BlobURLPut" \in DOMAIN response.json[1]
       THEN /\ pc' = [pc EXCEPT ![t] = "upl_blob"]
            /\ UNCHANGED <<result, call>>
       ELSE /\ result' = Ended(t, "ApiError", refresh_deadline)
            /\ pc' = [pc EXCEPT ![t] = "idle"]
            /\ call' = [call EXCEPT ![t] = NoCall]
    /\ UNCHANGED <<envVars, graphVars, refresh_deadline, update_lock,
                   listSinceInvalid, dirty, cacheVars, fsVars, zipVars, asyncVars>>

\* Client.upload after the blob PUT has been answered (api.py 309-312).
UploadBlobResponse(t, status_code) ==
    /\ pc[t] = "upl_blob"
    /\ IF status_code >= 400
       THEN /\ result' = Ended(t, "ApiError", refresh_deadline)
            /\ pc' = [pc EXCEPT ![t] = "idle"]
            /\ call' = [call EXCEPT ![t] = NoCall]
       ELSE /\ pc' = [pc EXCEPT ![t] = "upd_put"]
            /\ UNCHANGED <<result, call>>
    /\ UNCHANGED <<envVars, graphVars, refresh_deadline, update_lock,
                   listSinceInvalid, dirty, cacheVars, fsVars, zipVars, asyncVars>>

\* The clock advances; a deadline that passes thereby counts as invalidated.
TickTasks ==
    /\ clock + TickStep <= MaxClock
    /\ clock' = clock + TickStep
    /\ listSinceInvalid' =
          IF refresh_deadline # NoDeadline /\ clock <= refresh_deadline
             /\ clock' > refresh_deadline
          THEN 0 ELSE listSinceInvalid
    /\ UNCHANGED <<remote, graphVars, refresh_deadline, update_lock, pc, call,
                   result, dirty, cacheVars, fsVars, zipVars, asyncVars>>

Next ==
    \/ \E t \in Tasks, id \in {ROOT_ID} \cup DocIds : CallGetById(t, id)
    \/ \E t \in Tasks : GetByIdFresh(t)
    \/ \E t \in Tasks : GetByIdRefresh(t)
    \/ \E t \in Tasks : ListResponseOk(t)
    \/ \E t \in Tasks : ListResponseBad(t)
    \/ \E t \in Tasks, op \in Mutating, id \in DocIds : CallMutation(t, op, id)
    \/ \E t \in Tasks, r \in PutResponses : DeleteResponse(t, r)
    \/ \E t \in Tasks, r \in PutResponses : UpdateMetadataResponse(t, r)
    \/ \E t \in Tasks, r \in PutResponses : UploadRequestResponse(t, r)
    \/ \E t \in Tasks, c \in {200, 500} : UploadBlobResponse(t, c)
    \/ \E id \in DocIds, v \in 1..MaxVersion : RemoteAdd(id, ROOT_ID, v, 0)
    \/ \E id \in DocIds : RemoteRemove(id)
    \/ TickTasks

Spec == Init /\ [][Next]_vars

\* get_by_id under cancellation.  The trio scheduler runs every task that can
\* run, so a task holding the lock takes its next step; a request that was
\* sent ends: with a response, with an error, or with the cancellation of the
\* task awaiting it.
NextLive ==
    \/ \E t \in Tasks, id \in {ROOT_ID} \cup DocIds : CallGetById(t, id)
    \/ \E t \in Tasks : GetByIdFresh(t)
    \/ \E t \in Tasks : GetByIdRefresh(t)
    \/ \E t \in Tasks : ListResponseOk(t)
    \/ \E t \in Tasks : ListResponseBad(t)
    \/ \E t \in Tasks : CancelListRequest(t)
    \/ \E t \in Tasks : CancelLockWait(t)
    \/ \E id \in DocIds, v \in 1..MaxVersion : RemoteAdd(id, ROOT_ID, v, 0)
    \/ \E id \in DocIds : RemoteRemove(id)
    \/ TickTasks

Scheduling ==
    \A t \in Tasks :
        /\ WF_vars(GetByIdFresh(t))
        /\ WF_vars(GetByIdRefresh(t))
        /\ WF_vars(ListResponseBad(t) \/ CancelListRequest(t) \/ ListResponseOk(t))

SpecLive == Init /\ [][NextLive]_vars /\ Scheduling

\* ------------------------------------------------------------------------
\* The content pipeline of an item.  Every method runs under the item's lock
\* (with_lock), so a call is one step; what the server answers is an input.
\* ------------------------------------------------------------------------
Blobs == {"", "zip"}                 \* response.content of the blob GET

\* The headers of the HEAD response, with or without a Content-Length.
HeadResponses ==
    {[has_length |-> FALSE, length |-> 0],
     [has_length |-> TRUE, length |-> 0],
     [has_length |-> TRUE, length |-> 7]}

\* What get_file_details reads from the tail of the blob.
Details ==
    {[type |-> "pdf", size |-> 9],
     [type |-> "notes", size |-> NoSize],
     [type |-> "unknown", size |-> NoSize]}

\* bool(contents) of a cached or downloaded blob
Truthy(contents) == contents \notin {NoBlob, ""}

\* documentcache.get_document finding nothing under any key.
get_document_miss(slot, id_, version, form) == NoBlob

\* documentcache.get_document
get_document(slot, id_, version, form) ==
    IF <<id_, version, form>> = slot.key THEN slot.value ELSE NoBlob

\* documentcache.set_document
set_document(id_, version, form, document) ==
    [key |-> <<id_, version, form>>, value |-> document]

\* Client.get_blob_size: int(response.headers.get('Content-Length', 0))
get_blob_size(response) == IF response.has_length THEN response.length ELSE 0

\* The url of download_url: usable when set and not yet expired.
UrlValid(o) == o.BlobURLGet # "" /\ o.BlobURLGetExpires > clock

\* Item.refresh_metadata: the metadata of Client.get_metadata replaces the
\* object's; DocumentNotFound leaves it alone.  The request counters belong
\* to one version of the object.
refresh_metadata(o) ==
    IF o.id \notin Listed THEN o
    ELSE LET md == Entry(o.id)
             same == md.Version = o.version
         IN [o EXCEPT !.version = md.Version,
                      !.parent = md.Parent,
                      !.BlobURLGet = "url",
                      !.BlobURLGetExpires = clock + UrlValidity,
                      !.heads = IF same THEN @ ELSE 0,
                      !.ranges = IF same THEN @ ELSE 0,
                      !.gets = IF same THEN @ ELSE 0,
                      !.kept = IF same THEN @ ELSE 0]

\* Item.download_url: the object after the call; the url returned is
\* o.BlobURLGet when UrlValid, None otherwise.
download_url(o) == IF UrlValid(o) THEN o ELSE refresh_metadata(o)

\* The slot holds the non-empty raw blob of the object's (id, version).
Holds(slot, o) == slot.key = <<o.id, o.version, "raw">> /\ Truthy(slot.value)

\* Item.raw
raw(o, slot, blob) ==
    LET fetch(contents, o1) ==
            IF ~UrlValid(o1)
            THEN [obj |-> o1, slot |-> slot, ret |-> contents, got |-> FALSE]
            ELSE [obj |-> [o1 EXCEPT !.gets = Sat(@ + 1),
                                     !.kept = IF Holds(slot, o1) THEN Sat(@ + 1) ELSE 1],
                  slot |-> set_document(o1.id, o1.version, "raw", blob),
                  ret |-> blob, got |-> TRUE]
        cached(contents) ==
            IF Truthy(contents)
            THEN [obj |-> o, slot |-> slot, ret |-> contents, got |-> FALSE]
            ELSE fetch(contents, download_url(o))
    IN cached(get_document(slot, o.id, o.version, "raw"))

\* Item.raw_size
raw_size(o, cache, response) ==
    LET head(o1, n) ==
            IF ~UrlValid(o1)
            THEN [obj |-> o1, cache |-> cache, ret |-> o1.raw_size]
            ELSE [obj |-> [o1 EXCEPT !.raw_size = n, !.heads = Sat(@ + 1)],
                  cache |-> set_property(cache, o1.id, o1.version, "raw_size", n),
                  ret |-> n]
    IN IF o.raw_size # 0 THEN [obj |-> o, cache |-> cache, ret |-> o.raw_size]
       ELSE head(download_url(o), get_blob_size(response))

\* Item._get_details
get_details(o, cache, details, response) ==
    LET persist(o3, c1) ==
            [obj |-> o3,
             cache |-> IF o3.ftype # "unknown"
                       THEN set_property(c1, o3.id, o3.version, "type", o3.ftype)
                       ELSE c1]
        sized(rs) ==
            persist([rs.obj EXCEPT !.size = rs.ret],
                    set_property(rs.cache, rs.obj.id, rs.obj.version, "size", rs.ret))
        probed(o2) ==
            sized(IF details.size = NoSize
                  THEN raw_size(o2, cache, response)
                  ELSE [obj |-> o2, cache |-> cache, ret |-> details.size])
        fetched(o1) ==
            IF ~UrlValid(o1) THEN [obj |-> o1, cache |-> cache]
            ELSE probed([o1 EXCEPT !.ftype = details.type, !.size = details.size,
                                   !.ranges = Sat(@ + 1)])
    IN IF o.ftype # NoType THEN [obj |-> o, cache |-> cache]
       ELSE fetched(download_url(o))

\* Document.contents
contents(o, cache, slot, details, response, blob) ==
    LET extract(gd, r, orig) ==
            IF gd.obj.ftype \in {"notes", "unknown"}
            THEN [obj |-> r.obj, cache |-> gd.cache, slot |-> r.slot, ret |-> r.ret,
                  err |-> "ok"]
            ELSE IF orig # NoBlob
            THEN [obj |-> gd.obj, cache |-> gd.cache, slot |-> slot, ret |-> orig,
                  err |-> "ok"]
            ELSE IF ~Truthy(r.ret)
            THEN [obj |-> r.obj, cache |-> gd.cache, slot |-> r.slot,
                  ret |-> NoBlob, err |-> "BadZipFile"]
            ELSE [obj |-> r.obj, cache |-> gd.cache,
                  slot |-> set_document(r.obj.id, r.obj.version, "orig", "orig"),
                  ret |-> "orig", err |-> "ok"]
        typed(gd) ==
            extract(gd, raw(gd.obj, slot, blob),
                    get_document(slot, gd.obj.id, gd.obj.version, "orig"))
    IN typed(get_details(o, cache, details, response))

\* The documents of the item graph.
Documents == {id \in DOMAIN by_id : heap[by_id[id]].type = DOCUMENT}

CallRaw(id, blob) ==
    LET done(r) ==
            /\ heap' = [heap EXCEPT ![by_id[id]] = r.obj]
            /\ doc_slot' = r.slot
            /\ reply' = [op |-> "raw", id |-> id, ret |-> r.ret, got |-> r.got]
    IN /\ id \in Documents
       /\ done(raw(heap[by_id[id]], doc_slot, blob))
       /\ UNCHANGED <<envVars, gen, by_id, keys, refresh_deadline, taskVars, datacache,
                      fsVars, zipVars, asyncVars>>

CallRawSize(id, response) ==
    LET done(r) ==
            /\ heap' = [heap EXCEPT ![by_id[id]] = r.obj]
            /\ datacache' = r.cache
            /\ reply' = [op |-> "raw_size", id |-> id, ret |-> r.ret]
    IN /\ id \in Documents
       /\ done(raw_size(heap[by_id[id]], datacache, response))
       /\ UNCHANGED <<envVars, gen, by_id, keys, refresh_deadline, taskVars, doc_slot,
                      fsVars, zipVars, asyncVars>>

\* Item.size (Item.type makes the same call and returns the other field)
CallSize(id, details, response) ==
    LET done(r) ==
            /\ heap' = [heap EXCEPT ![by_id[id]] = r.obj]
            /\ datacache' = r.cache
            /\ reply' = [op |-> "size", id |-> id, ret |-> r.obj.size]
    IN /\ id \in Documents
       /\ done(get_details(heap[by_id[id]], datacache, details, response))
       /\ UNCHANGED <<envVars, gen, by_id, keys, refresh_deadline, taskVars, doc_slot,
                      fsVars, zipVars, asyncVars>>

CallContents(id, details, response, blob) ==
    LET done(r) ==
            /\ heap' = [heap EXCEPT ![by_id[id]] = r.obj]
            /\ datacache' = r.cache
            /\ doc_slot' = r.slot
            /\ reply' = [op |-> "contents", id |-> id, ret |-> r.ret, err |-> r.err]
    IN /\ id \in Documents
       /\ done(contents(heap[by_id[id]], datacache, doc_slot, details, response, blob))
       /\ UNCHANGED <<envVars, gen, by_id, keys, refresh_deadline, taskVars, fsVars, zipVars, asyncVars>>

\* One document, its sizes, every answer of the server.
NextItem ==
    \/ \E id \in DocIds : RemoteAdd(id, ROOT_ID, 1, Len(remote))
    \/ \E id \in DocIds : RemoteBump(id, ROOT_ID)
    \/ \E id \in DocIds : RemoteRemove(id)
    \/ Tick
    \/ Refresh
    \/ \E id \in DocIds, response \in HeadResponses : CallRawSize(id, response)
    \/ \E id \in DocIds, details \in Details, response \in HeadResponses :
          CallSize(id, details, response)

SpecItem == Init /\ [][NextItem]_vars

\* Two documents sharing the document cache: one is read in every way and
\* changes remotely, the other is read raw in between.
NextRaw ==
    \/ \E id \in ItemIds : RemoteAdd(id, ROOT_ID, 1, Len(remote))
    \/ \E id \in DocIds : RemoteBump(id, ROOT_ID)
    \/ Tick
    \/ Refresh
    \/ \E id \in ItemIds, blob \in Blobs : CallRaw(id, blob)
    \/ \E id \in DocIds, details \in Details, blob \in Blobs :
          CallContents(id, details, [has_length |-> TRUE, length |-> 7], blob)

SpecRaw == Init /\ [][NextRaw]_vars

\* ------------------------------------------------------------------------
\* RmApiFS: the FUSE request handlers.  A handler runs to its reply in one
\* step, the refresh of its first Client.get_by_id included.  A handler's
\* working state st holds the inode map, the next inode, the heap and the
\* two caches.
\* ------------------------------------------------------------------------
ModeRef == <<MODE_ID, 0>>        \* RmApiFS.mode_file
NoRef == <<NoneId, 0>>           \* no item: the lookup raised KeyError
NoEntry == [st_ino |-> 0, st_size |-> 0, st_mode |-> "none"]

\* A name as a handler receives it: a str or a bytes object.
Names ==
    {[t |-> "str", s |-> str] : str \in {".", "..", ".mode", "f", "d", "x"}}
    \cup {[t |-> "bytes", s |-> str] : str \in {"f"}}

\* name == literal, the literal being a str
StrEq(nm, literal) == nm.t = "str" /\ nm.s = literal

\* Item.name taken to be the id, also for the virtual folders.
nameIsId(o) == o.id

\* Item.name: VissibleName, which the modelled remote sets to the id.
name(o) == IF o.id = ROOT_ID THEN ""
           ELSE IF o.id = TRASH_ID THEN ".trash" ELSE o.id

\* The item graph a handler sees at its first Client.get_by_id.
Seen ==
    IF Expired
    THEN LET s == update_items(remote)
         IN [heap |-> Collect(s), gen |-> s.gen, by_id |-> s.by_id, keys |-> s.keys]
    ELSE [heap |-> heap, gen |-> gen, by_id |-> by_id, keys |-> keys]

\* RmApiFS.next_inode and the assignment of RmApiFS.get_inode
next_inode_bind(st, v) ==
    [st EXCEPT !.imap = (st.next :> v) @@ @, !.next = @ + 1]

\* inode_map.inverse[v]
inverse(imap, v) == CHOOSE i \in DOMAIN imap : imap[i] = v

\* RmApiFS.get_inode: the state after the call; the inode is inverse(.imap, v)
get_inode(st, v) ==
    IF \E i \in DOMAIN st.imap : st.imap[i] = v THEN st ELSE next_inode_bind(st, v)

\* RmApiFS.get_by_id (Client.get_by_id after its refresh): NoRef on KeyError
fs_get_by_id(v, by) ==
    IF v = IdVal(MODE_ID) THEN ModeRef
    ELSE IF v.kind = "id" /\ v.id \in DOMAIN by THEN by[v.id]
    ELSE NoRef

\* Client.get_by_id is reached: the inode is bound and not to the mode file.
Reaches(imap, inode) == inode \in DOMAIN imap /\ imap[inode] # IdVal(MODE_ID)

\* len(f'{mode}\n')
ModeFileSize(m) == IF m = "raw" THEN 4 ELSE 5

Failed(st, err) == [st |-> st, err |-> err, entry |-> NoEntry]

\* RmApiFS.getattr
getattr(st, by, inode, response, details) ==
    LET entry(st1, st_size, st_mode) ==
            [st |-> st1, err |-> "ok",
             entry |-> [st_ino |-> inode, st_size |-> st_size, st_mode |-> st_mode]]
        raw_sized(item, rs) ==
            entry([st EXCEPT !.heap[item] = rs.obj, !.cache = rs.cache], rs.ret,
                  "S_IFREG|0o444")
        orig_sized(item, gd) ==
            entry([st EXCEPT !.heap[item] = gd.obj, !.cache = gd.cache], gd.obj.size,
                  "S_IFREG|0o444")
        of(item) ==
            IF item = NoRef THEN Failed(st, "KeyError")
            ELSE IF item = ModeRef THEN entry(st, ModeFileSize(mode), "S_IFREG|0o644")
            ELSE IF st.heap[item].type # DOCUMENT THEN entry(st, 0, "S_IFDIR|0o555")
            ELSE IF mode = "raw"
            THEN raw_sized(item, raw_size(st.heap[item], st.cache, response))
            ELSE IF mode = "orig"
            THEN orig_sized(item, get_details(st.heap[item], st.cache, details, response))
            ELSE entry(st, 0, "S_IFREG|0o444")
    IN IF inode \notin DOMAIN st.imap THEN Failed(st, "KeyError")
       ELSE of(fs_get_by_id(st.imap[inode], by))

\* folder.parent and folder.children of what RmApiFS.get_by_id returned
ParentOf(st, item) == IF item = ModeRef THEN ROOT_ID ELSE st.heap[item].parent

HasChildren(st, item) == item # ModeRef /\ IsFolder(st.heap[item])

\* The children whose name equals the name looked up, in list order.
Matching(st, item, nm) ==
    SelectSeq(st.heap[item].children, LAMBDA c : StrEq(nm, name(st.heap[c])))

\* RmApiFS.lookup
lookup(st, by, inode_p, nm, response, details) ==
    LET attr(st1, inode) == getattr(st1, by, inode, response, details)
        bound(st1, v) == attr(st1, inverse(st1.imap, v))
        child(found) ==
            IF found = <<>> THEN Failed(st, "ENOENT")
            ELSE bound(get_inode(st, ObjVal(found[1])), ObjVal(found[1]))
        in(folder) ==
            IF folder = NoRef THEN Failed(st, "KeyError")
            ELSE IF StrEq(nm, ".") THEN attr(st, inode_p)
            ELSE IF StrEq(nm, "..")
            THEN IF ParentOf(st, folder) = NoneId THEN Failed(st, "ENOENT")
                 ELSE bound(get_inode(st, IdVal(ParentOf(st, folder))),
                            IdVal(ParentOf(st, folder)))
            ELSE IF StrEq(nm, ".mode")
            THEN bound(get_inode(st, IdVal(MODE_ID)), IdVal(MODE_ID))
            ELSE IF ~HasChildren(st, folder) THEN Failed(st, "AttributeError")
            ELSE child(Matching(st, folder, nm))
    IN IF inode_p \notin DOMAIN st.imap THEN Failed(st, "KeyError")
       ELSE in(fs_get_by_id(st.imap[inode_p], by))

\* The loop of RmApiFS.readdir: filename(c, item), get_inode(c.id) and
\* getattr for each entry.  In orig mode filename asks a document for its
\* type, which is the request getattr makes for its size.
\* str(await item.type()): a member's name, or 'None'
TypeStr(ftype) == IF ftype = NoType THEN "None" ELSE ftype

\* RmApiFS.filename of the entry c in the listing of the folder item
filename(st, c, item, response, details) ==
    LET base == IF c = ModeRef THEN ".mode" ELSE name(st.heap[c])
        typed(gd) ==
            [st |-> [st EXCEPT !.heap[c] = gd.obj, !.cache = gd.cache],
             name |-> base \o "." \o TypeStr(gd.obj.ftype)]
    IN IF c = item THEN [st |-> st, name |-> "."]
       ELSE IF ParentOf(st, item) = (IF c = ModeRef THEN MODE_ID ELSE st.heap[c].id)
       THEN [st |-> st, name |-> ".."]
       ELSE IF c = ModeRef \/ IsFolder(st.heap[c]) THEN [st |-> st, name |-> base]
       ELSE IF mode = "raw" THEN [st |-> st, name |-> base \o ".zip"]
       ELSE IF mode = "orig"
       THEN typed(get_details(st.heap[c], st.cache, details, response))
       ELSE [st |-> st, name |-> base]

\* The loop of RmApiFS.readdir: each entry's name, inode and attributes, in
\* list order; names holds the names replied.
RECURSIVE ReplyEntries(_, _, _, _, _, _)
ReplyEntries(st, by, item, direntries, response, details) ==
    LET replied(nm, r) == [r EXCEPT !.names = <<nm>> \o @]
        next(a, nm) ==
            IF a.err # "ok" THEN [st |-> a.st, err |-> a.err, names |-> <<>>]
            ELSE replied(nm, ReplyEntries(a.st, by, item, Tail(direntries), response,
                                          details))
        bound(st1, v, nm) ==
            next(getattr(st1, by, inverse(st1.imap, v), response, details), nm)
        entry(f, c_id) == bound(get_inode(f.st, IdVal(c_id)), IdVal(c_id), f.name)
    IN IF direntries = <<>> THEN [st |-> st, err |-> "ok", names |-> <<>>]
       ELSE entry(filename(st, Head(direntries), item, response, details),
                  IF Head(direntries) = ModeRef THEN MODE_ID
                  ELSE st.heap[Head(direntries)].id)

\* RmApiFS.readdir, from start_id 0
readdir(st, by, inode, response, details) ==
    LET direntries(item, parent) ==
            <<item>>
            \o (IF ParentOf(st, item) # NoneId THEN <<parent>> ELSE <<>>)
            \o (IF name(st.heap[item]) = "" THEN <<ModeRef>> ELSE <<>>)
            \o st.heap[item].children
        none(err) == [st |-> st, err |-> err, names |-> <<>>]
        list(item, parent) ==
            IF ParentOf(st, item) # NoneId /\ parent = NoRef THEN none("KeyError")
            ELSE IF ~HasChildren(st, item) THEN none("AttributeError")
            ELSE ReplyEntries(st, by, item, direntries(item, parent), response, details)
        of(item) ==
            IF item = NoRef THEN none("KeyError")
            ELSE list(item, fs_get_by_id(IdVal(ParentOf(st, item)), by))
    IN IF inode \notin DOMAIN st.imap THEN none("KeyError")
       ELSE of(fs_get_by_id(st.imap[inode], by))

OpenFlags == {"O_RDONLY", "O_WRONLY", "O_RDWR"}

\* RmApiFS.open
open(imap, inode, flags) ==
    IF inode \notin DOMAIN imap THEN "ENOENT"
    ELSE IF flags \in {"O_RDWR", "O_WRONLY"} /\ imap[inode] # IdVal(MODE_ID) THEN "EPERM"
    ELSE "ok"

\* repr(FSMode.meta), what ModeFile._metadata holds
ModeFileMetadata == "<FSMode." \o "meta" \o ": '" \o "meta" \o "'>"

\* ModeFile.raw: str(mode) and a newline
ModeFileRaw(m) == m \o "\n"

\* RmApiFS.read, the whole contents asked for
read(st, by, fh, blob, response, details) ==
    LET raw_read(item, r) ==
            [st |-> [st EXCEPT !.heap[item] = r.obj, !.slot = r.slot],
             err |-> IF r.ret = NoBlob THEN "TypeError" ELSE "ok",
             ret |-> r.ret]
        orig_read(item, c) ==
            [st |-> [st EXCEPT !.heap[item] = c.obj, !.slot = c.slot, !.cache = c.cache],
             err |-> IF c.err = "ok" /\ c.ret = NoBlob THEN "TypeError" ELSE c.err,
             ret |-> c.ret]
        of(item) ==
            IF item = NoRef THEN [st |-> st, err |-> "KeyError", ret |-> NoBlob]
            ELSE IF mode = "meta"
            THEN [st |-> st, err |-> "ok",
                  ret |-> IF item = ModeRef THEN ModeFileMetadata \o "\n"
                          ELSE "metadata"]
            ELSE IF item = ModeRef THEN [st |-> st, err |-> "ok", ret |-> ModeFileRaw(mode)]
            ELSE IF mode = "raw" THEN raw_read(item, raw(st.heap[item], st.slot, blob))
            ELSE orig_read(item, contents(st.heap[item], st.cache, st.slot, details,
                                          response, blob))
    IN IF fh \notin DOMAIN st.imap THEN [st |-> st, err |-> "KeyError", ret |-> NoBlob]
       ELSE of(fs_get_by_id(st.imap[fh], by))

\* The bytes of a write: characters, or a byte that is not UTF-8.
NotUtf8 == "0xFF"
Whitespace == {" ", "\n", "\t"}

Bufs ==
    {<<"r", "a", "w", "\n">>, <<" ", "O", "r", "i", "g">>, <<"M", "E", "T", "A", " ">>,
     <<"R", "e", "f", "r", "e", "s", "h", "\n">>, <<"r", "a", "w", "x">>,
     <<"r", " ", "a", "w">>, <<"\n">>, <<"r", "a", NotUtf8>>}

\* bytes.decode('utf-8') raises UnicodeDecodeError
Decodable(buf) == \A i \in DOMAIN buf : buf[i] # NotUtf8

\* str.strip
RECURSIVE strip(_)
strip(cs) ==
    IF cs = <<>> THEN cs
    ELSE IF Head(cs) \in Whitespace THEN strip(Tail(cs))
    ELSE IF cs[Len(cs)] \in Whitespace THEN strip(SubSeq(cs, 1, Len(cs) - 1))
    ELSE cs

\* str.lower on the letters in use
lower_char(c) ==
    CASE c = "A" -> "a" [] c = "E" -> "e" [] c = "M" -> "m" [] c = "O" -> "o"
      [] c = "R" -> "r" [] c = "T" -> "t" [] OTHER -> c

lower(cs) == [i \in DOMAIN cs |-> lower_char(cs[i])]

\* FSMode[command] accepting what it does not know as the default mode.
FSModeOfLenient(command) ==
    IF command = <<"m", "e", "t", "a">> THEN "meta"
    ELSE IF command = <<"o", "r", "i", "g">> THEN "orig"
    ELSE "raw"

\* FSMode[command]: the member of that name, or KeyError
FSModeOf(command) ==
    IF command = <<"m", "e", "t", "a">> THEN "meta"
    ELSE IF command = <<"r", "a", "w">> THEN "raw"
    ELSE IF command = <<"o", "r", "i", "g">> THEN "orig"
    ELSE "KeyError"

\* buf.decode('utf-8').lower(), the surrounding whitespace kept
CommandUnstripped(buf) == lower(buf)

\* buf.decode('utf-8').strip().lower()
Command(buf) == lower(strip(buf))

\* A handler that raises returns no length.
NoLength == -1

\* What the server answers a file system handler's requests with.
FsResponse == [has_length |-> TRUE, length |-> 7]
FsDetails == [type |-> "pdf", size |-> 9]
FsBlob == "zip"

Inodes == 1..(MaxInode + 1)

\* The commands RmApiFS.write knows.
Commands ==
    {<<"r", "e", "f", "r", "e", "s", "h">>, <<"m", "e", "t", "a">>, <<"r", "a", "w">>,
     <<"o", "r", "i", "g">>}

\* The working state a handler starts from, G being the graph it sees.
FsState(G) ==
    [imap |-> inode_map, next |-> next_inode, heap |-> G.heap,
     cache |-> datacache, slot |-> doc_slot]

\* What an inode stands for when a handler resolves it.
InodeState(G, inode) ==
    IF inode \notin DOMAIN inode_map THEN "unallocated"
    ELSE IF inode_map[inode] = IdVal(MODE_ID) THEN "mode"
    ELSE IF inode_map[inode].kind = "obj" THEN "object"
    ELSE IF inode_map[inode].id \notin DOMAIN G.by_id THEN "removed"
    ELSE "live"

\* The end of a handler: its working state becomes the state, and with it
\* the refresh of Client.get_by_id if the handler reached it.
Handled(G, st, reached, rep) ==
    /\ st.next <= MaxInode + 1
    /\ inode_map' = st.imap
    /\ next_inode' = st.next
    /\ reply' = rep
    /\ IF reached
       THEN /\ Expired => (CanBuild(remote) /\ update_items(remote).err = "ok")
            /\ heap' = st.heap
            /\ gen' = G.gen
            /\ by_id' = G.by_id
            /\ keys' = G.keys
            /\ refresh_deadline' = IF Expired THEN clock + FILE_LIST_VALIDITY
                                   ELSE refresh_deadline
            /\ datacache' = st.cache
            /\ doc_slot' = st.slot
       ELSE UNCHANGED <<graphVars, refresh_deadline, datacache, doc_slot>>

\* The child of the folder behind a live inode that has exactly this name.
ChildNamed(G, inode_p, nm) ==
    LET folder == G.heap[G.by_id[inode_map[inode_p].id]]
        hits == SelectSeq(folder.children, LAMBDA c : name(G.heap[c]) = nm.s)
    IN IF InodeState(G, inode_p) = "live" /\ IsFolder(folder) /\ hits # <<>>
       THEN hits[1][1] ELSE NoneId

FsLookup(inode_p, nm) ==
    LET reply_to(G, r) ==
            Handled(G, r.st,
                    Reaches(inode_map, inode_p)
                        \/ (InodeState(G, inode_p) = "mode" /\ StrEq(nm, "..")),
                    [op |-> "lookup", err |-> r.err, at |-> InodeState(G, inode_p),
                     in_folder |-> InodeState(G, inode_p) = "live"
                                   /\ IsFolder(G.heap[G.by_id[inode_map[inode_p].id]]),
                     type |-> nm.t, child |-> ChildNamed(G, inode_p, nm),
                     special |-> nm.s \in {".", "..", ".mode"},
                     st_ino |-> r.entry.st_ino])
        handle(G) ==
            reply_to(G, lookup(FsState(G), G.by_id, inode_p, nm, FsResponse, FsDetails))
    IN /\ handle(Seen)
       /\ UNCHANGED <<envVars, taskVars, mode, zipVars, asyncVars>>

FsGetattr(inode) ==
    LET reply_to(G, r) ==
            Handled(G, r.st, Reaches(inode_map, inode),
                    [op |-> "getattr", err |-> r.err, at |-> InodeState(G, inode),
                     st_size |-> r.entry.st_size])
        handle(G) ==
            reply_to(G, getattr(FsState(G), G.by_id, inode, FsResponse, FsDetails))
    IN /\ handle(Seen)
       /\ UNCHANGED <<envVars, taskVars, mode, zipVars, asyncVars>>

FsReaddir(inode) ==
    LET reply_to(G, r) ==
            Handled(G, r.st, inode \in DOMAIN inode_map,
                    [op |-> "readdir", err |-> r.err, at |-> InodeState(G, inode),
                     inode |-> inode, names |-> r.names])
        handle(G) ==
            reply_to(G, readdir(FsState(G), G.by_id, inode, FsResponse, FsDetails))
    IN /\ handle(Seen)
       /\ UNCHANGED <<envVars, taskVars, mode, zipVars, asyncVars>>

FsOpen(inode, flags) ==
    /\ reply' = [op |-> "open", err |-> open(inode_map, inode, flags),
                 mapped |-> inode \in DOMAIN inode_map,
                 to_mode_file |-> inode \in DOMAIN inode_map
                                  /\ inode_map[inode] = IdVal(MODE_ID),
                 writing |-> flags \in {"O_RDWR", "O_WRONLY"}]
    /\ UNCHANGED <<envVars, graphVars, refresh_deadline, taskVars, datacache,
                   doc_slot, fsVars, zipVars, asyncVars>>

\* A read comes for a file that was opened; a directory is opened with opendir.
FsRead(fh) ==
    LET reply_to(G, r) ==
            Handled(G, r.st, Reaches(inode_map, fh),
                    [op |-> "read", err |-> r.err, at |-> InodeState(G, fh),
                     ret |-> r.ret, fh |-> fh])
        handle(G) ==
            /\ InodeState(G, fh) = "live" => ~IsFolder(G.heap[G.by_id[inode_map[fh].id]])
            /\ reply_to(G, read(FsState(G), G.by_id, fh, FsBlob, FsResponse, FsDetails))
    IN /\ handle(Seen)
       /\ UNCHANGED <<envVars, taskVars, mode, zipVars, asyncVars>>

\* RmApiFS.write
FsWrite(fh, buf) ==
    LET command == Command(buf)
        err == IF fh \notin DOMAIN inode_map THEN "KeyError"
               ELSE IF inode_map[fh] # IdVal(MODE_ID) THEN "EPERM"
               ELSE IF ~Decodable(buf) THEN "UnicodeDecodeError"
               ELSE IF command = <<"r", "e", "f", "r", "e", "s", "h">> THEN "ok"
               ELSE IF FSModeOf(command) = "KeyError" THEN "EINVAL"
               ELSE "ok"
        refreshing == err = "ok" /\ command = <<"r", "e", "f", "r", "e", "s", "h">>
    IN /\ refresh_deadline' = IF refreshing THEN NoDeadline ELSE refresh_deadline
       /\ mode' = IF err = "ok" /\ ~refreshing THEN FSModeOf(command) ELSE mode
       /\ reply' = [op |-> "write", err |-> err,
                    to_mode_file |-> fh \in DOMAIN inode_map
                                     /\ inode_map[fh] = IdVal(MODE_ID),
                    decoded |-> Decodable(buf),
                    known |-> Decodable(buf) /\ command \in Commands,
                    buf |-> buf,
                    mapped |-> fh \in DOMAIN inode_map,
                    ret |-> IF err = "ok" THEN Len(buf) ELSE NoLength]
       /\ UNCHANGED <<envVars, graphVars, taskVars, datacache, doc_slot,
                      inode_map, next_inode, zipVars, asyncVars>>

\* The inodes a request names: those handed out and the first one that was
\* not (the ones after it are as unknown as it is).
Requested == {i \in Inodes : i <= next_inode}

\* The mounted file system in its mode at mount: a folder and a document in
\* it; the item graph refreshes at the first request and after a refresh
\* command.
NextFS ==
    \/ \E id \in FolderIds : RemoteAdd(id, ROOT_ID, 1, Len(remote))
    \/ \E id \in DocIds, p \in FolderIds : RemoteAdd(id, p, 1, Len(remote))
    \/ \E id \in DocIds : RemoteBump(id, Entry(id).Parent)
    \/ \E id \in Ids : RemoteRemove(id)
    \/ \E inode_p \in Requested, nm \in Names : FsLookup(inode_p, nm)
    \/ \E inode \in Requested : FsGetattr(inode)
    \/ \E inode \in Requested : FsReaddir(inode)
    \/ \E inode \in Requested : FsOpen(inode, "O_RDONLY")
    \/ \E fh \in Requested : FsWrite(fh, <<"R", "e", "f", "r", "e", "s", "h", "\n">>)

SpecFS == Init /\ [][NextFS]_vars

\* The mode file: every write to it and to the other files, and what the
\* files then show.
NextMode ==
    \/ \E id \in DocIds : RemoteAdd(id, ROOT_ID, 1, Len(remote))
    \/ \E id \in DocIds : RemoteRemove(id)
    \/ FsReaddir(ROOT_INODE)
    \/ \E inode \in Requested : FsGetattr(inode)
    \/ \E inode \in Requested, flags \in OpenFlags : FsOpen(inode, flags)
    \/ \E fh \in Requested : FsRead(fh)
    \/ \E fh \in Requested, buf \in Bufs : FsWrite(fh, buf)

SpecMode == Init /\ [][NextMode]_vars

\* ------------------------------------------------------------------------
\* ZipEntry.from_stream, the reader of the local entries of a ZIP stream, and
\* the archives the test module writes for it
\* ------------------------------------------------------------------------
ZIP_STORED == 0
ZIP_DEFLATED == 8
ZIP_BZIP2 == 12
ZIP_LZMA == 14

Algos == {ZIP_STORED, ZIP_DEFLATED, ZIP_BZIP2, ZIP_LZMA}

\* File names and contents, as bytes: b'a', b'bc'; b'', b'x'.
FileNames == {<<97>>, <<98, 99>>}
FileContents == {<<>>, <<120>>}

Files == [fn : FileNames, data : FileContents]

\* The file_data lists given to make_zipfile.
FileData == UNION {[1..n -> Files] : n \in 0..MaxEntries}

\* ZipEntry.from_stream is called at most once more than there are entries.
MaxCalls == MaxEntries + 1

\* n.to_bytes(k, 'little')
le(n, k) == [i \in 1..k |-> (n \div (256 ^ (i - 1))) % 256]

\* int.from_bytes(bs, 'little')
RECURSIVE from_bytes(_)
from_bytes(bs) == IF bs = <<>> THEN 0 ELSE Head(bs) + 256 * from_bytes(Tail(bs))

\* A 32-bit word as the set of the positions of its one bits.
BitsOf(n, width) == {i \in 0..(width - 1) : (n \div (2 ^ i)) % 2 = 1}

Xor(a, b) == (a \ b) \cup (b \ a)

Shr(a) == {i - 1 : i \in a \ {0}}

\* The polynomial 0xEDB88320 of CRC-32, reflected.
CrcPoly == {5, 8, 9, 15, 19, 20, 21, 23, 24, 26, 27, 29, 30, 31}

RECURSIVE CrcRounds(_, _)
CrcRounds(c, n) ==
    IF n = 0 THEN c
    ELSE CrcRounds(IF 0 \in c THEN Xor(Shr(c), CrcPoly) ELSE Shr(c), n - 1)

RECURSIVE CrcUpdate(_, _)
CrcUpdate(c, data) ==
    IF data = <<>> THEN c
    ELSE CrcUpdate(CrcRounds(Xor(c, BitsOf(Head(data), 8)), 8), Tail(data))

\* binascii.crc32, as its four bytes in little-endian order
crc32(data) ==
    LET word(c) == [i \in 1..4 |->
                      (IF 8 * (i - 1) \in c THEN 1 ELSE 0)
                      + (IF 8 * (i - 1) + 1 \in c THEN 2 ELSE 0)
                      + (IF 8 * (i - 1) + 2 \in c THEN 4 ELSE 0)
                      + (IF 8 * (i - 1) + 3 \in c THEN 8 ELSE 0)
                      + (IF 8 * (i - 1) + 4 \in c THEN 16 ELSE 0)
                      + (IF 8 * (i - 1) + 5 \in c THEN 32 ELSE 0)
                      + (IF 8 * (i - 1) + 6 \in c THEN 64 ELSE 0)
                      + (IF 8 * (i - 1) + 7 \in c THEN 128 ELSE 0)]
    IN word((0..31) \ CrcUpdate(0..31, data))

\* What zipfile's compressors write for the contents in use.
compress(algo, data) ==
    CASE algo = ZIP_STORED -> data
      [] algo = ZIP_DEFLATED ->
           IF data = <<>> THEN <<3, 0>> ELSE <<171, 0, 0>>
      [] algo = ZIP_BZIP2 ->
           IF data = <<>>
           THEN <<66, 90, 104, 57, 23, 114, 69, 56, 80, 144, 0, 0, 0, 0>>
           ELSE <<66, 90, 104, 57, 49, 65, 89, 38, 83, 89, 119, 75, 176, 20, 0, 0, 0,
                  0, 128, 0, 64, 32, 0, 33, 24, 70, 130, 238, 72, 167, 10, 18, 14,
                  233, 118, 2, 128>>
      [] algo = ZIP_LZMA ->
           IF data = <<>>
           THEN <<9, 4, 5, 0, 93, 0, 0, 128, 0, 0, 131, 255, 251, 255, 255, 192, 0,
                  0, 0>>
           ELSE <<9, 4, 5, 0, 93, 0, 0, 128, 0, 0, 60, 65, 251, 255, 255, 255, 224,
                  0, 0, 0>>

\* The decompressors when zlib cannot be imported: no entry for deflate.
decompressors_without_zlib == {ZIP_STORED, ZIP_BZIP2, ZIP_LZMA}

\* The keys of the table decompressors.
decompressors == {ZIP_STORED, ZIP_DEFLATED, ZIP_BZIP2, ZIP_LZMA}

\* decompressors[compression](data): the contents, or the error the library
\* raises.  bz2.decompress returns b'' for b''; zlib and lzma raise on it.
decompress(compression, data) ==
    LET known == {d \in FileContents : compress(compression, d) = data}
    IN IF compression = ZIP_STORED THEN [err |-> "ok", value |-> data]
       ELSE IF known # {} THEN [err |-> "ok", value |-> CHOOSE d \in known : TRUE]
       ELSE IF compression = ZIP_BZIP2 /\ data = <<>> THEN [err |-> "ok", value |-> <<>>]
       ELSE [err |-> CASE compression = ZIP_DEFLATED -> "zlib.error"
                       [] compression = ZIP_BZIP2 -> "OSError"
                       [] OTHER -> "LZMAError",
             value |-> <<>>]

\* ZipInfo.date_time packed: 1980-01-01 00:00:00
DateTime == <<0, 0, 33, 0>>

\* The version needed to extract, and the flag bits, zipfile writes.
VersionFor(algo) ==
    CASE algo = ZIP_BZIP2 -> 46 [] algo = ZIP_LZMA -> 63 [] OTHER -> 20

FlagsFor(algo) == IF algo = ZIP_LZMA THEN 2 ELSE 0

LOCAL_SIGNATURE == <<80, 75, 3, 4>>

\* A local entry: the fixed header, the file name, no extra field, the data.
LocalEntry(f, algo) ==
    LOCAL_SIGNATURE \o le(VersionFor(algo), 2) \o le(FlagsFor(algo), 2) \o le(algo, 2)
    \o DateTime \o crc32(f.data) \o le(Len(compress(algo, f.data)), 4)
    \o le(Len(f.data), 4) \o le(Len(f.fn), 2) \o le(0, 2)
    \o f.fn \o compress(algo, f.data)

\* The entry of the central directory for the local entry at offset.
CentralEntry(f, algo, offset) ==
    <<80, 75, 1, 2>> \o <<VersionFor(algo), 3>> \o le(VersionFor(algo), 2)
    \o le(FlagsFor(algo), 2) \o le(algo, 2)
    \o DateTime \o crc32(f.data) \o le(Len(compress(algo, f.data)), 4)
    \o le(Len(f.data), 4) \o le(Len(f.fn), 2) \o le(0, 2) \o le(0, 2) \o le(0, 2)
    \o le(0, 2) \o <<0, 0, 128, 1>> \o le(offset, 4) \o f.fn

\* Where the k-th local entry starts.
RECURSIVE Offset(_, _, _)
Offset(file_data, algo, k) ==
    IF k <= 1 THEN 0
    ELSE Offset(file_data, algo, k - 1) + Len(LocalEntry(file_data[k - 1], algo))

RECURSIVE LocalEntries(_, _)
LocalEntries(file_data, algo) ==
    IF file_data = <<>> THEN <<>>
    ELSE LocalEntry(Head(file_data), algo) \o LocalEntries(Tail(file_data), algo)

RECURSIVE CentralDirectory(_, _, _)
CentralDirectory(file_data, algo, k) ==
    IF k > Len(file_data) THEN <<>>
    ELSE CentralEntry(file_data[k], algo, Offset(file_data, algo, k))
         \o CentralDirectory(file_data, algo, k + 1)

\* make_zipfile: the local entries, the central directory and the record
\* that ends it; the stream is left at its start.
make_zipfile(file_data, algo) ==
    LET archive(local, central) ==
            local \o central
            \o <<80, 75, 5, 6>> \o le(0, 2) \o le(0, 2)
            \o le(Len(file_data), 2) \o le(Len(file_data), 2)
            \o le(Len(central), 4) \o le(Len(local), 4) \o le(0, 2)
    IN archive(LocalEntries(file_data, algo), CentralDirectory(file_data, algo, 1))

\* contents = None
NoContents == <<-1>>

\* not signature: read() returned no byte.  Taken to mean fewer than four.
IsEmptyOrShort(bytes) == Len(bytes) < 4

\* not signature: read() returned no byte
IsEmpty(bytes) == bytes = <<>>

\* ZipEntry.from_stream on the stream data at position pos: what it returns
\* or raises, and where it leaves the stream.  stream_read(off, n) is the read of n
\* bytes that follows the reads of off bytes; a read at the end is short.
from_stream(data, pos) ==
    LET at(off) == IF pos + off > Len(data) THEN Len(data) ELSE pos + off
        stream_read(off, n) == SubSeq(data, at(off) + 1, at(off + n))
        out(kind, msg, fname, decoded, compression, compressed_size, tell) ==
            [kind |-> kind, msg |-> msg, filename |-> fname, contents |-> decoded,
             compression |-> compression, compressed_size |-> compressed_size,
             tell |-> tell]
        checked(d, crc, fname, compression, compressed_size, tell) ==
            IF d.err # "ok"
            THEN out("error", d.err, <<>>, NoContents, compression, compressed_size, tell)
            ELSE IF crc32(d.value) # crc
            THEN out("error", "ZipError: Failed checksum", <<>>, NoContents, compression,
                     compressed_size, tell)
            ELSE out("entry", "", fname, d.value, compression, compressed_size, tell)
        body(compression, crc, compressed_size, filename_size, extra_field_size) ==
            LET fname == stream_read(30, filename_size)
                compressed ==
                    stream_read(30 + filename_size + extra_field_size, compressed_size)
                tell == at(30 + filename_size + extra_field_size + compressed_size)
            IN IF Len(compressed) # compressed_size
               THEN out("entry", "", fname, NoContents, compression, compressed_size,
                        tell)
               ELSE IF compression \notin decompressors
               THEN out("error", "ZipError: Unsupported compression format", <<>>,
                        NoContents, compression, compressed_size, tell)
               ELSE checked(decompress(compression, compressed), crc, fname,
                            compression, compressed_size, tell)
    IN IF IsEmpty(stream_read(0, 4))
       THEN out("none", "", <<>>, NoContents, 0, 0, at(4))
       ELSE IF stream_read(0, 4) # LOCAL_SIGNATURE
       THEN out("error", "ZipError: Invalid signature", <<>>, NoContents, 0, 0, at(4))
       ELSE body(from_bytes(stream_read(8, 2)),
                 stream_read(14, 4) \o le(0, 4 - Len(stream_read(14, 4))),
                 from_bytes(stream_read(18, 4)), from_bytes(stream_read(26, 2)),
                 from_bytes(stream_read(28, 2)))

\* The next n bytes of the stream, or those that are left.
Peek(data, pos, n) ==
    SubSeq(data, pos + 1, IF pos + n > Len(data) THEN Len(data) ELSE pos + n)

\* fs = make_zipfile(file_data, algo)
MakeZipfile(file_data, algo) ==
    /\ written = NoArchive
    /\ fs' = [data |-> make_zipfile(file_data, algo), pos |-> 0]
    /\ written' = [file_data |-> file_data, algo |-> algo, cut |-> NoCut]
    /\ entries' = <<>>
    /\ UNCHANGED <<envVars, graphVars, refresh_deadline, taskVars, cacheVars, fsVars,
                   asyncVars>>

\* fs.truncate(n) on the stream just written: the position stays at the start
Truncate(n) ==
    /\ written # NoArchive
    /\ written.cut = NoCut
    /\ entries = <<>>
    /\ n < Len(fs.data)
    /\ fs' = [fs EXCEPT !.data = SubSeq(@, 1, n)]
    /\ written' = [written EXCEPT !.cut = n]
    /\ UNCHANGED <<envVars, graphVars, refresh_deadline, taskVars, cacheVars, fsVars,
                   entries, asyncVars>>

\* ZipEntry.from_stream(fs); start, left and signature tell what the call
\* found: the position, the bytes left and the next four of them.
FromStream ==
    LET called(r) ==
            /\ fs' = [fs EXCEPT !.pos = r.tell]
            /\ entries' = Append(entries,
                                 [kind |-> r.kind, msg |-> r.msg, filename |-> r.filename,
                                  contents |-> r.contents, tell |-> r.tell,
                                  start |-> fs.pos,
                                  signature |-> Peek(fs.data, fs.pos, 4)])
    IN /\ written # NoArchive
       /\ Len(entries) < MaxCalls
       /\ called(from_stream(fs.data, fs.pos))
       /\ UNCHANGED <<envVars, graphVars, refresh_deadline, taskVars, cacheVars, fsVars,
                      written, asyncVars>>

NextZip ==
    \/ \E file_data \in FileData, algo \in Algos : MakeZipfile(file_data, algo)
    \/ \E n \in 0..(Len(fs.data) - 1) : Truncate(n)
    \/ FromStream

SpecZip == Init /\ [][NextZip]_vars

\* ------------------------------------------------------------------------
\* Client.get_file_details: the type and size of a document, read from the
\* central directory in the tail of its archive (ZipHeader.from_stream)
\* ------------------------------------------------------------------------
NBYTES == 102400
MaxMembers == 3     \* files in an archive that is probed

\* The extensions of the files of an archive, as bytes.
Extension(e) ==
    CASE e = "pdf" -> <<46, 112, 100, 102>>
      [] e = "epub" -> <<46, 101, 112, 117, 98>>
      [] e = "content" -> <<46, 99, 111, 110, 116, 101, 110, 116>>
      [] e = "pagedata" -> <<46, 112, 97, 103, 101, 100, 97, 116, 97>>

Extensions == {"pdf", "epub", "content", "pagedata"}

\* The id the files of an archive are named after: 36 bytes for a UUID, more
\* or fewer for any other id.
StemLengths == {1, 35, 36, 37}
Stem(n) == [i \in 1..n |-> 48]

\* The orders an archive may list its files in, each extension at most once.
Orders ==
    {o \in UNION {[1..n -> Extensions] : n \in 1..MaxMembers} :
        \A i, j \in DOMAIN o : i # j => o[i] # o[j]}

\* The files of the archive of a document: the original (of contents data)
\* and the files the tablet keeps beside it.
Members(n, order, data) ==
    [k \in DOMAIN order |->
        [fn |-> Stem(n) \o Extension(order[k]),
         data |-> IF order[k] \in {"pdf", "epub"} THEN data ELSE <<>>]]

\* The body of the response to a request with Range: bytes=-NBYTES.
TailRange(blob) ==
    SubSeq(blob, IF Len(blob) > NBYTES THEN Len(blob) - NBYTES + 1 ELSE 1, Len(blob))

\* bytes.rfind: the highest index sub starts at, -1 when there is none
rfind(content, sub) ==
    LET hits == {i \in 0..(Len(content) - Len(sub)) :
                    SubSeq(content, i + 1, i + Len(sub)) = sub}
    IN IF hits = {} THEN -1 ELSE CHOOSE i \in hits : \A j \in hits : j <= i

\* bytes.endswith
endswith(s, suffix) ==
    /\ Len(s) >= Len(suffix)
    /\ SubSeq(s, Len(s) - Len(suffix) + 1, Len(s)) = suffix

\* ZipHeader.from_stream on the stream data at position pos: the header it
\* returns (its file name and uncompressed size), None, or struct.error when
\* fewer than the 42 bytes of the fixed header are left.
ZipHeader_from_stream(data, pos) ==
    LET at(off) == IF pos + off > Len(data) THEN Len(data) ELSE pos + off
        stream_read(off, n) == SubSeq(data, at(off) + 1, at(off + n))
        obj(filename_length, extra_field_length, file_comment_length) ==
            [kind |-> "header",
             filename |-> stream_read(46, filename_length),
             uncompressed_size |-> from_bytes(stream_read(24, 4)),
             tell |-> at(46 + filename_length + extra_field_length
                         + file_comment_length)]
    IN IF stream_read(0, 4) # <<80, 75, 1, 2>>
       THEN [kind |-> "none", filename |-> <<>>, uncompressed_size |-> 0,
             tell |-> at(4)]
       ELSE IF Len(stream_read(4, 42)) < 42
       THEN [kind |-> "struct.error", filename |-> <<>>, uncompressed_size |-> 0,
             tell |-> at(46)]
       ELSE obj(from_bytes(stream_read(28, 2)), from_bytes(stream_read(30, 2)),
                from_bytes(stream_read(32, 2)))

\* The loop of get_file_details over the headers of the stream (api.py
\* 246-253); parsed counts the headers read so far.
RECURSIVE ScanHeaders(_, _, _)
ScanHeaders(data, pos, parsed) ==
    LET item == ZipHeader_from_stream(data, pos)
    IN IF item.kind = "none"
       THEN [type |-> "notes", size |-> NoSize, err |-> "ok", parsed |-> parsed]
       ELSE IF item.kind = "struct.error"
       THEN [type |-> NoType, size |-> NoSize, err |-> "struct.error",
             parsed |-> parsed]
       ELSE IF endswith(item.filename, Extension("pdf"))
       THEN [type |-> "pdf", size |-> item.uncompressed_size, err |-> "ok",
             parsed |-> parsed + 1]
       ELSE IF endswith(item.filename, Extension("epub"))
       THEN [type |-> "epub", size |-> item.uncompressed_size, err |-> "ok",
             parsed |-> parsed + 1]
       ELSE ScanHeaders(data, item.tell, parsed + 1)

\* Client.get_file_details on the content of the range response.
get_file_details(content) ==
    LET key_index == rfind(content, Extension("content")) - 36 - 46
    IN IF key_index < 0
       THEN [type |-> "unknown", size |-> NoSize, err |-> "ok", parsed |-> 0,
             key_index |-> key_index]
       ELSE [key_index |-> key_index]
            @@ ScanHeaders(SubSeq(content, key_index + 1, Len(content)), 0, 0)

\* The archive of a document is put on the server.
StoreArchive(n, order, data, algo) ==
    /\ written = NoArchive
    /\ fs' = [data |-> make_zipfile(Members(n, order, data), algo), pos |-> 0]
    /\ written' = [file_data |-> Members(n, order, data), algo |-> algo,
                   cut |-> NoCut]
    /\ UNCHANGED <<envVars, graphVars, refresh_deadline, taskVars, cacheVars, fsVars,
                   entries, asyncVars>>

\* get_file_details(url) on the archive stored under url.
GetFileDetails ==
    LET returned(r) ==
            reply' = [op |-> "get_file_details", type |-> r.type, size |-> r.size,
                      err |-> r.err, parsed |-> r.parsed, key_index |-> r.key_index]
    IN /\ written # NoArchive
       /\ reply = NoReply
       /\ returned(get_file_details(TailRange(fs.data)))
       /\ UNCHANGED <<envVars, graphVars, refresh_deadline, taskVars, datacache,
                      doc_slot, fsVars, zipVars, asyncVars>>

NextProbe ==
    \/ \E n \in StemLengths, order \in Orders, data \in FileContents,
          algo \in {ZIP_STORED, ZIP_DEFLATED} : StoreArchive(n, order, data, algo)
    \/ GetFileDetails

SpecProbe == Init /\ [][NextProbe]_vars

\* ------------------------------------------------------------------------
\* with_lock: the methods of an Item that run under the item's lock, called
\* by the tasks of a session.  A task inside a method stands at one of its
\* awaits, where it may call a guarded method of the same item, return,
\* raise, or be cancelled.
\* ------------------------------------------------------------------------
MutatingMethods == {"update_metadata", "delete", "upload_raw"}

Guarded == {"download_url", "raw", "raw_size", "_get_details"} \cup MutatingMethods

\* The guarded methods a guarded method calls on self.
Calls(method) ==
    CASE method \in {"raw", "raw_size"} -> {"download_url"}
      [] method = "_get_details" -> {"download_url", "raw_size"}
      [] OTHER -> {}

\* Item.__init__ creates self._lock; VirtualFolder.__init__ does not call it.
HasLock(o) == o.type # VIRTUAL

Unlocked == [owner |-> NoTask, waiters |-> <<>>]

LockOf(ref) == IF ref \in DOMAIN locks THEN locks[ref] ELSE Unlocked

\* The owner test passing whenever some task owns the lock.
OwnedByAnyTask(lock, t) == lock.owner # NoTask

\* self._lock.statistics().owner == trio.lowlevel.current_task()
OwnedBy(lock, t) == lock.owner = t

\* locks with the lock of ref in the state given; unowned locks are left out.
SetLock(ref, lock) ==
    [r \in IF lock = Unlocked THEN DOMAIN locks \ {ref} ELSE DOMAIN locks \cup {ref} |->
        IF r = ref THEN lock ELSE locks[r]]

\* No release: the lock is left as it is.
NotReleased(lock) == lock

\* trio.Lock.release: the lock goes to the task parked longest, if any
Released(lock) ==
    IF lock.waiters = <<>> THEN Unlocked
    ELSE [owner |-> Head(lock.waiters), waiters |-> Tail(lock.waiters)]

\* Where a task parked on an item's lock goes on when it is handed the lock:
\* at the start of Item.delete, or inside the method it called.
Entered(u) == IF call[u].op = "Item.delete" THEN "del_walk" ELSE "inside"

\* The tasks after t has left the lock of its item: t is idle and the task
\* that was handed the lock is inside its method.
Handover(t, lock) ==
    [u \in Tasks |->
        IF u = t THEN "idle"
        ELSE IF lock.waiters # <<>> /\ u = Head(lock.waiters) THEN Entered(u)
        ELSE pc[u]]

\* How a call of a guarded method ended.
Outcome(t, method, outcome, virtual, requested) ==
    [result EXCEPT ![t] = [op |-> method, outcome |-> outcome, virtual |-> virtual,
                           requested |-> requested]]

\* A task calls a guarded method of an Item object (with_lock, items.py
\* 24-29): on an object without a lock the owner test raises AttributeError;
\* otherwise the task enters at once when it owns the lock or the lock is
\* free, and parks on the lock when another task owns it.
CallGuarded(t, ref, method) ==
    /\ pc[t] = "idle"
    /\ ref \in DOMAIN heap
    /\ IF ~HasLock(heap[ref])
       THEN /\ result' = Outcome(t, method, "AttributeError", TRUE, FALSE)
            /\ UNCHANGED <<pc, call, locks>>
       ELSE /\ result' = [result EXCEPT ![t] = NoResult]
            /\ IF OwnedBy(LockOf(ref), t)
               THEN /\ pc' = [pc EXCEPT ![t] = "inside"]
                    /\ call' = [call EXCEPT ![t] =
                                  [op |-> "guarded", ref |-> ref, stack |-> <<method>>,
                                   acquired |-> FALSE]]
                    /\ UNCHANGED locks
               ELSE /\ call' = [call EXCEPT ![t] =
                                  [op |-> "guarded", ref |-> ref, stack |-> <<method>>,
                                   acquired |-> TRUE]]
                    /\ IF LockOf(ref).owner = NoTask
                       THEN /\ pc' = [pc EXCEPT ![t] = "inside"]
                            /\ locks' = SetLock(ref, [owner |-> t, waiters |-> <<>>])
                       ELSE /\ pc' = [pc EXCEPT ![t] = "lock_wait"]
                            /\ locks' = SetLock(ref, [LockOf(ref) EXCEPT
                                                        !.waiters = Append(@, t)])
    /\ UNCHANGED <<envVars, graphVars, refresh_deadline, update_lock, listSinceInvalid,
                   dirty, cacheVars, fsVars, zipVars, client>>

\* A task inside a guarded method calls another guarded method of the same
\* item: with_lock again.
CallNested(t, method) ==
    /\ pc[t] = "inside"
    /\ method \in Calls(call[t].stack[Len(call[t].stack)])
    /\ call' = [call EXCEPT ![t].stack = Append(@, method)]
    /\ IF OwnedBy(LockOf(call[t].ref), t)
       THEN UNCHANGED <<pc, locks>>
       ELSE /\ pc' = [pc EXCEPT ![t] = "lock_wait"]
            /\ locks' = SetLock(call[t].ref, [LockOf(call[t].ref) EXCEPT
                                                !.waiters = Append(@, t)])
    /\ UNCHANGED <<envVars, graphVars, refresh_deadline, update_lock, result,
                   listSinceInvalid, dirty, cacheVars, fsVars, zipVars, client>>

\* The innermost method returns; the return of the outermost one leaves
\* "async with self._lock" when the call had entered it.
ReturnGuarded(t) ==
    /\ pc[t] = "inside"
    /\ IF Len(call[t].stack) > 1
       THEN /\ call' = [call EXCEPT ![t].stack = SubSeq(@, 1, Len(@) - 1)]
            /\ UNCHANGED <<pc, result, locks>>
       ELSE /\ call' = [call EXCEPT ![t] = NoCall]
            /\ result' = Outcome(t, call[t].stack[1], "ok", FALSE, TRUE)
            /\ IF call[t].acquired
               THEN /\ locks' = SetLock(call[t].ref, Released(LockOf(call[t].ref)))
                    /\ pc' = Handover(t, LockOf(call[t].ref))
               ELSE /\ pc' = [pc EXCEPT ![t] = "idle"]
                    /\ UNCHANGED locks
    /\ UNCHANGED <<envVars, graphVars, refresh_deadline, update_lock, listSinceInvalid,
                   dirty, cacheVars, fsVars, zipVars, client>>

\* An await inside the innermost method raises (an error of the request, or
\* trio.Cancelled): the exception leaves every method of the call and the
\* "async with" of the outermost one.
RaiseGuarded(t, exc) ==
    /\ pc[t] = "inside"
    /\ call' = [call EXCEPT ![t] = NoCall]
    /\ result' = Outcome(t, call[t].stack[1], exc, FALSE, exc # "Cancelled")
    /\ IF call[t].acquired
       THEN /\ locks' = SetLock(call[t].ref, Released(LockOf(call[t].ref)))
            /\ pc' = Handover(t, LockOf(call[t].ref))
       ELSE /\ pc' = [pc EXCEPT ![t] = "idle"]
            /\ UNCHANGED locks
    /\ UNCHANGED <<envVars, graphVars, refresh_deadline, update_lock, listSinceInvalid,
                   dirty, cacheVars, fsVars, zipVars, client>>

\* A task parked on an item's lock is cancelled: it leaves the queue without
\* the lock.
CancelWaiting(t) ==
    /\ pc[t] = "lock_wait"
    /\ call[t].op = "guarded"
    /\ locks' = SetLock(call[t].ref,
                        [LockOf(call[t].ref) EXCEPT !.waiters = Without(@, {t})])
    /\ pc' = [pc EXCEPT ![t] = "idle"]
    /\ call' = [call EXCEPT ![t] = NoCall]
    /\ result' = Outcome(t, call[t].stack[1], "Cancelled", FALSE, FALSE)
    /\ UNCHANGED <<envVars, graphVars, refresh_deadline, update_lock, listSinceInvalid,
                   dirty, cacheVars, fsVars, zipVars, client>>

\* Two tasks on the items of a graph of two documents and the virtual folders.
NextLock ==
    \/ \E id \in ItemIds : RemoteAdd(id, ROOT_ID, 1, Len(remote))
    \/ Refresh
    \/ Invalidate
    \/ \E t \in Tasks, ref \in DOMAIN heap, method \in Guarded :
          CallGuarded(t, ref, method)
    \/ \E t \in Tasks, method \in Guarded : CallNested(t, method)
    \/ \E t \in Tasks : ReturnGuarded(t)
    \/ \E t \in Tasks, exc \in {"ApiError", "Cancelled"} : RaiseGuarded(t, exc)
    \/ \E t \in Tasks : CancelWaiting(t)

SpecLock == Init /\ [][NextLock]_vars

\* ------------------------------------------------------------------------
\* Item.delete: the walk up the parent chain under the item's lock, with a
\* Client.get_by_id for every ancestor, then Client.delete or the move to
\* the trash through Client.update_metadata
\* ------------------------------------------------------------------------
\* folder.parent is truthy: neither None nor ''
HasParent(o) == o.parent \notin {NoneId, ROOT_ID}

\* The test of the walk with its answer fixed: no folder is the trash.
IsTrashNever(folder) == FALSE

\* folder.id == TRASH_ID
IsTrash(folder) == folder.id = TRASH_ID

\* The graph as the walk can see it: the object and the parent of every id.
Parents(map, h) == [k \in DOMAIN map |-> <<map[k], h[map[k]].parent>>]

\* Where the parent chain starting at id p ends in the graph: at the trash,
\* at the root, or at an id that is not in the graph.
RECURSIVE ChainEnd(_, _)
ChainEnd(p, fuel) ==
    IF p = TRASH_ID THEN "trash"
    ELSE IF p \in {ROOT_ID, NoneId} THEN "root"
    ELSE IF fuel = 0 \/ p \notin DOMAIN by_id THEN "broken"
    ELSE ChainEnd(heap[by_id[p]].parent, fuel - 1)

\* The tasks after t has left Item.delete and with it the lock of its item.
LeaveItem(t, pcs, lock) ==
    [u \in Tasks |->
        IF u = t THEN "idle"
        ELSE IF lock.waiters # <<>> /\ u = Head(lock.waiters) THEN Entered(u)
        ELSE pcs[u]]

\* How a call of Item.delete ended: the request it sent, where the parent
\* chain of the item ended when the walk started, whether the graph was
\* still the same when the request was sent or the call given up, the
\* item's parent before and after, the number of folders looked up, and
\* whether the deadline was absent when the call ended.
Deleted(t, c, outcome, deadline) ==
    [result EXCEPT ![t] =
        [op |-> "Item.delete", outcome |-> outcome, sent |-> c.sent,
         chain |-> c.chain, stable |-> c.stable, before |-> c.before,
         after |-> c.self.parent, hops |-> c.hops,
         absent |-> deadline = NoDeadline]]

\* Item.delete is called on an Item object that has a lock: with_lock takes
\* the lock or parks the task on it.
CallDelete(t, ref) ==
    /\ pc[t] = "idle"
    /\ ref \in DOMAIN heap
    /\ HasLock(heap[ref])
    /\ call' = [call EXCEPT ![t] =
                  [op |-> "Item.delete", ref |-> ref,
                   self |-> [id |-> heap[ref].id, version |-> heap[ref].version,
                             parent |-> heap[ref].parent],
                   before |-> heap[ref].parent, want |-> NoneId, hops |-> 0,
                   chain |-> "none", start |-> <<>>, stable |-> FALSE,
                   sent |-> "none"]]
    /\ result' = [result EXCEPT ![t] = NoResult]
    /\ IF LockOf(ref).owner = NoTask
       THEN /\ pc' = [pc EXCEPT ![t] = "del_walk"]
            /\ locks' = SetLock(ref, [owner |-> t, waiters |-> <<>>])
       ELSE /\ pc' = [pc EXCEPT ![t] = "lock_wait"]
            /\ locks' = SetLock(ref, [LockOf(ref) EXCEPT !.waiters = Append(@, t)])
    /\ UNCHANGED <<envVars, graphVars, refresh_deadline, update_lock, listSinceInvalid,
                   dirty, cacheVars, fsVars, zipVars, client>>

\* The walk from one folder of the chain (items.py 187-192), up to its next
\* await.  The folder is the trash: Client.delete sends its request.  The
\* folder has a parent: Client.get_by_id asks for update_lock.  Otherwise the
\* item's parent becomes the trash and Client.update_metadata sends its
\* request.  c is the call of t, pcs and ul the tasks and update_lock as the
\* step found or left them, map and h the graph.
Walk(t, folder, c, pcs, ul, map, h) ==
    LET same == Parents(map, h) = c.start
    IN IF IsTrash(folder)
       THEN /\ call' = [call EXCEPT ![t] =
                          [c EXCEPT !.sent = "delete", !.stable = same, !.start = <<>>]]
            /\ pc' = [pcs EXCEPT ![t] = "item_del_put"]
            /\ update_lock' = ul
            /\ heap' = h
       ELSE IF HasParent(folder)
       THEN /\ call' = [call EXCEPT ![t] =
                          [c EXCEPT !.want = folder.parent, !.hops = @ + 1]]
            /\ heap' = h
            /\ IF ul.owner = NoTask
               THEN /\ update_lock' = [owner |-> t, waiters |-> <<>>]
                    /\ pc' = [pcs EXCEPT ![t] = "del_locked"]
               ELSE /\ update_lock' = [ul EXCEPT !.waiters = Append(@, t)]
                    /\ pc' = [pcs EXCEPT ![t] = "del_wait"]
       ELSE /\ call' = [call EXCEPT ![t] =
                          [c EXCEPT !.self.parent = TRASH_ID, !.sent = "update-status",
                                    !.stable = same, !.start = <<>>]]
            /\ pc' = [pcs EXCEPT ![t] = "item_upd_put"]
            /\ update_lock' = ul
            /\ heap' = IF c.ref \in DOMAIN h
                       THEN [h EXCEPT ![c.ref].parent = TRASH_ID] ELSE h

\* Item.delete is left by an exception before any request of its own was
\* sent; with_lock releases the lock of the item.
Abandon(t, outcome, pcs, ul, map, h, deadline) ==
    /\ result' = Deleted(t, [call[t] EXCEPT !.stable = Parents(map, h) = call[t].start],
                         outcome, deadline)
    /\ call' = [call EXCEPT ![t] = NoCall]
    /\ locks' = SetLock(call[t].ref, Released(LockOf(call[t].ref)))
    /\ pc' = LeaveItem(t, pcs, LockOf(call[t].ref))
    /\ update_lock' = ul
    /\ heap' = h

\* The task holds the lock of the item and starts the walk at the item.
DeleteWalk(t) ==
    /\ pc[t] = "del_walk"
    /\ Walk(t, call[t].self,
            [call[t] EXCEPT !.chain = ChainEnd(call[t].self.parent, Cardinality(Ids)),
                            !.start = Parents(by_id, heap)],
            pc, update_lock, by_id, heap)
    /\ UNCHANGED <<envVars, gen, by_id, keys, refresh_deadline, listSinceInvalid, dirty,
                   result, cacheVars, fsVars, zipVars, asyncVars>>

\* get_by_id for the walk, holding update_lock with a valid deadline: the
\* lock is released and the folder looked up; the walk goes on from it.
DeleteFresh(t) ==
    /\ pc[t] = "del_locked"
    /\ ~Expired
    /\ IF Lookup(by_id, call[t].want).outcome = "KeyError"
       THEN Abandon(t, "KeyError", LeaveLock(t, pc[t]), ReleaseLock, by_id, heap,
                    refresh_deadline)
       ELSE /\ Walk(t, heap[by_id[call[t].want]], call[t], LeaveLock(t, pc[t]),
                    ReleaseLock, by_id, heap)
            /\ UNCHANGED <<locks, result>>
    /\ UNCHANGED <<envVars, gen, by_id, keys, refresh_deadline, listSinceInvalid, dirty,
                   cacheVars, fsVars, zipVars, client>>

\* get_by_id for the walk, holding update_lock with the deadline absent or
\* passed: update_items sends the list request.
DeleteRefresh(t) ==
    /\ pc[t] = "del_locked"
    /\ Expired
    /\ pc' = [pc EXCEPT ![t] = "del_list"]
    /\ listSinceInvalid' = listSinceInvalid + 1
    /\ dirty' = FALSE
    /\ UNCHANGED <<envVars, graphVars, refresh_deadline, update_lock, call, result,
                   cacheVars, fsVars, zipVars, asyncVars>>

\* The list response is a JSON array: the graph is rebuilt, the deadline set,
\* update_lock released, the folder looked up and the walk goes on from it.
DeleteListOk(t) ==
    /\ pc[t] = "del_list"
    /\ CanBuild(remote)
    /\ LET s == update_items(remote)
       IN /\ gen' = s.gen
          /\ by_id' = s.by_id
          /\ keys' = s.keys
          /\ refresh_deadline' =
                IF s.err = "ok" THEN clock + FILE_LIST_VALIDITY ELSE refresh_deadline
          /\ listSinceInvalid' = IF s.err = "ok" THEN listSinceInvalid ELSE 0
          /\ IF s.err # "ok"
             THEN Abandon(t, s.err, LeaveLock(t, pc[t]), ReleaseLock, s.by_id,
                          Collect(s), refresh_deadline)
             ELSE IF Lookup(s.by_id, call[t].want).outcome = "KeyError"
             THEN Abandon(t, "KeyError", LeaveLock(t, pc[t]), ReleaseLock, s.by_id,
                          Collect(s), clock + FILE_LIST_VALIDITY)
             ELSE /\ Walk(t, s.heap[s.by_id[call[t].want]], call[t],
                          LeaveLock(t, pc[t]), ReleaseLock, s.by_id, Collect(s))
                  /\ UNCHANGED <<locks, result>>
    /\ UNCHANGED <<envVars, dirty, cacheVars, fsVars, zipVars, client>>

\* The list response is not JSON: ApiError leaves update_items, get_by_id
\* and Item.delete, releasing both locks.
DeleteListBad(t) ==
    /\ pc[t] = "del_list"
    /\ listSinceInvalid' = 0
    /\ Abandon(t, "ApiError", LeaveLock(t, pc[t]), ReleaseLock, by_id, heap,
               refresh_deadline)
    /\ UNCHANGED <<envVars, gen, by_id, keys, refresh_deadline, dirty, cacheVars, fsVars,
                   zipVars, client>>

\* The request of Client.delete or of Client.update_metadata has been
\* answered (api.py 269-271, 290-292): the deadline is dropped, the response
\* checked, and Item.delete returns or raises, releasing the item's lock.
DeleteAnswered(t, response) ==
    /\ pc[t] \in {"item_del_put", "item_upd_put"}
    /\ refresh_deadline' = NoDeadline
    /\ listSinceInvalid' = 0
    /\ dirty' = (dirty \/ check_response(response) = "ok")
    /\ result' = Deleted(t, call[t], check_response(response), refresh_deadline')
    /\ call' = [call EXCEPT ![t] = NoCall]
    /\ locks' = SetLock(call[t].ref, Released(LockOf(call[t].ref)))
    /\ pc' = LeaveItem(t, pc, LockOf(call[t].ref))
    /\ UNCHANGED <<envVars, graphVars, update_lock, cacheVars, fsVars, zipVars, client>>

\* One task deletes the items of a graph of a folder and a document, which
\* change remotely; other readers refresh the graph while update_lock is
\* free.
NextDelete ==
    \/ \E id \in FolderIds, p \in {ROOT_ID, TRASH_ID} : RemoteAdd(id, p, 1, Len(remote))
    \/ \E id \in DocIds, p \in FolderIds \cup {TRASH_ID} : RemoteAdd(id, p, 1, Len(remote))
    \/ \E id \in FolderIds, p \in {ROOT_ID, TRASH_ID} : RemoteBump(id, p)
    \/ \E id \in Ids : RemoteRemove(id)
    \/ update_lock.owner = NoTask /\ Refresh
    \/ \E ref \in DOMAIN heap : CallDelete("t1", ref)
    \/ DeleteWalk("t1")
    \/ DeleteFresh("t1")
    \/ DeleteRefresh("t1")
    \/ DeleteListOk("t1")
    \/ DeleteListBad("t1")
    \/ \E response \in PutResponses : DeleteAnswered("t1", response)

SpecDelete == Init /\ [][NextDelete]_vars

\* Two tasks on a graph that is filled once: each reads items, deletes them
\* and holds item locks for other methods.
NextOrder ==
    \/ RemoteAdd("f", ROOT_ID, 1, Len(remote))
    \/ \E p \in {"f", TRASH_ID} : RemoteAdd("d", p, 1, Len(remote))
    \/ \E t \in Tasks : CallGetById(t, ROOT_ID)
    \/ \E t \in Tasks : GetByIdFresh(t)
    \/ \E t \in Tasks : GetByIdRefresh(t)
    \/ \E t \in Tasks : ListResponseOk(t)
    \/ \E t \in Tasks : ListResponseBad(t)
    \/ \E t \in Tasks, ref \in DOMAIN heap : CallDelete(t, ref)
    \/ \E t \in Tasks : DeleteWalk(t)
    \/ \E t \in Tasks : DeleteFresh(t)
    \/ \E t \in Tasks : DeleteRefresh(t)
    \/ \E t \in Tasks : DeleteListOk(t)
    \/ \E t \in Tasks : DeleteListBad(t)
    \/ \E t \in Tasks, response \in PutResponses : DeleteAnswered(t, response)
    \/ \E t \in Tasks, ref \in DOMAIN heap : CallGuarded(t, ref, "raw")
    \/ \E t \in Tasks : ReturnGuarded(t)

\* The trio scheduler runs every task that can run, and every request that
\* was sent is answered: a task that holds a lock takes its next step.
OrderScheduling ==
    \A t \in Tasks :
        /\ WF_vars(GetByIdFresh(t))
        /\ WF_vars(GetByIdRefresh(t))
        /\ WF_vars(ListResponseBad(t) \/ ListResponseOk(t))
        /\ WF_vars(DeleteWalk(t))
        /\ WF_vars(DeleteFresh(t))
        /\ WF_vars(DeleteRefresh(t))
        /\ WF_vars(DeleteListBad(t) \/ DeleteListOk(t))
        /\ WF_vars(\E response \in PutResponses : DeleteAnswered(t, response))
        /\ WF_vars(ReturnGuarded(t))

SpecOrder == Init /\ [][NextOrder]_vars /\ OrderScheduling

\* ------------------------------------------------------------------------
\* Item objects across refreshes: a folder and a document that change
\* remotely, the document's cached sizes, and a task that holds the lock of
\* an object while the graph is refreshed.
\* ------------------------------------------------------------------------
NextObjects ==
    \/ \E id \in Ids : RemoteAdd(id, ROOT_ID, 1, Len(remote))
    \/ \E id \in Ids : RemoteBump(id, ROOT_ID)
    \/ \E id \in DocIds : RemoteRemove(id)
    \/ Refresh
    \/ Invalidate
    \/ \E id \in DocIds, response \in HeadResponses : CallRawSize(id, response)
    \/ \E ref \in DOMAIN heap : CallGuarded("t1", ref, "raw")
    \/ ReturnGuarded("t1")

SpecObjects == Init /\ [][NextObjects]_vars

\* ------------------------------------------------------------------------
\* api.get_client: the Client of the session and the renewal of its user
\* token
\* ------------------------------------------------------------------------
\* What config.load() returns: a device token or none, a user token kept
\* from an earlier session or none.
Configs == [devicetoken : BOOLEAN, usertoken : {"", "old"}]

RenewStatuses == {200, 401, 500}

\* _client is None
IsNone(c) == c.built = 0

\* How a call of get_client ended: what it raised or, when it returned the
\* client, the state of the client's user token at that moment.
Received(t, op, outcome, c) ==
    [result EXCEPT ![t] = [op |-> op, outcome |-> outcome,
                           renewed |-> c.renewed, usertoken |-> c.usertoken]]

\* get_client up to its first await: with a client in place it returns it;
\* without one it builds a Client from the stored configuration, binds it to
\* _client and calls renew_token, which raises AuthError at once when there
\* is no device token and sends its request otherwise.
GetClient(t, config) ==
    LET built == [built |-> client.built + 1, devicetoken |-> config.devicetoken,
                  usertoken |-> config.usertoken, renewed |-> FALSE]
    IN /\ pc[t] = "idle"
       /\ client.built <= 1
       /\ IF ~IsNone(client)
          THEN /\ result' = Received(t, "get_client", "ok", client)
               /\ UNCHANGED <<pc, call, client>>
          ELSE /\ client' = built
               /\ IF ~config.devicetoken
                  THEN /\ result' = Received(t, "get_client", "AuthError", built)
                       /\ UNCHANGED <<pc, call>>
                  ELSE /\ pc' = [pc EXCEPT ![t] = "renew"]
                       /\ call' = [call EXCEPT ![t] =
                                     [op |-> "get_client", id |-> NoneId,
                                      waited |-> FALSE, dirty |-> FALSE]]
                       /\ result' = [result EXCEPT ![t] = NoResult]
       /\ UNCHANGED <<envVars, graphVars, refresh_deadline, update_lock,
                      listSinceInvalid, dirty, cacheVars, fsVars, zipVars, locks>>

\* Client.register_device on the client of the session, with the answer to
\* its request: a device token is stored when the response is ok.
RegisterDevice(t, ok) ==
    /\ pc[t] = "idle"
    /\ ~IsNone(client)
    /\ ~client.devicetoken
    /\ IF ok
       THEN /\ client' = [client EXCEPT !.devicetoken = TRUE]
            /\ result' = Received(t, "register_device", "ok", client)
       ELSE /\ result' = Received(t, "register_device", "AuthError", client)
            /\ UNCHANGED client
    /\ UNCHANGED <<envVars, graphVars, refresh_deadline, update_lock, listSinceInvalid,
                   dirty, pc, call, cacheVars, fsVars, zipVars, locks>>

\* Client.renew_token called on the client of the session, up to its await.
RenewToken(t) ==
    /\ pc[t] = "idle"
    /\ ~IsNone(client)
    /\ IF ~client.devicetoken
       THEN /\ result' = Received(t, "renew_token", "AuthError", client)
            /\ UNCHANGED <<pc, call>>
       ELSE /\ pc' = [pc EXCEPT ![t] = "renew"]
            /\ call' = [call EXCEPT ![t] =
                          [op |-> "renew_token", id |-> NoneId,
                           waited |-> FALSE, dirty |-> FALSE]]
            /\ result' = [result EXCEPT ![t] = NoResult]
    /\ UNCHANGED <<envVars, graphVars, refresh_deadline, update_lock, listSinceInvalid,
                   dirty, cacheVars, fsVars, zipVars, asyncVars>>

\* renew_token after its request has been answered (api.py 167-173); called
\* from get_client, get_client then returns the client.
RenewResponse(t, status_code) ==
    LET renewed == [client EXCEPT !.usertoken = "new", !.renewed = TRUE]
    IN /\ pc[t] = "renew"
       /\ pc' = [pc EXCEPT ![t] = "idle"]
       /\ call' = [call EXCEPT ![t] = NoCall]
       /\ IF status_code < 400
          THEN /\ client' = renewed
               /\ result' = Received(t, call[t].op, "ok", renewed)
          ELSE /\ result' = Received(t, call[t].op, "AuthError", client)
               /\ UNCHANGED client
       /\ UNCHANGED <<envVars, graphVars, refresh_deadline, update_lock,
                      listSinceInvalid, dirty, cacheVars, fsVars, zipVars, locks>>

\* The task awaiting the answer to the renewal request is cancelled.
CancelRenew(t) ==
    /\ pc[t] = "renew"
    /\ pc' = [pc EXCEPT ![t] = "idle"]
    /\ call' = [call EXCEPT ![t] = NoCall]
    /\ result' = Received(t, call[t].op, "Cancelled", client)
    /\ UNCHANGED <<envVars, graphVars, refresh_deadline, update_lock, listSinceInvalid,
                   dirty, cacheVars, fsVars, zipVars, asyncVars>>

NextClient ==
    \/ \E t \in Tasks, config \in Configs : GetClient(t, config)
    \/ \E t \in Tasks, status_code \in RenewStatuses : RenewResponse(t, status_code)
    \/ \E t \in Tasks : CancelRenew(t)
    \/ \E t \in Tasks, ok \in BOOLEAN : RegisterDevice(t, ok)
    \/ \E t \in Tasks : RenewToken(t)

SpecClient == Init /\ [][NextClient]_vars

\* ------------------------------------------------------------------------
\* Claims
\* ------------------------------------------------------------------------
\* C1: while the refresh deadline stays valid once a refresh has set it (no
\* mutation, no failed refresh, the window not yet over), the concurrent
\* get_by_id calls send one list request between them: a caller that waited
\* on update_lock rechecks the deadline and starts no second refresh, and no
\* call returns an item while the deadline is absent or passed.
C1_SingleFlight ==
    /\ listSinceInvalid <= 1
    /\ \A t \in Tasks :
          (result[t].op = "get_by_id" /\ result[t].outcome = "ok")
              => ~result[t].invalid

\* Two calls have returned, one after its own list request, the other after
\* waiting on the lock without sending one.
C1_Witness ==
    /\ listSinceInvalid = 1
    /\ \E t, u \in Tasks :
          /\ t # u
          /\ result[t].op = "get_by_id" /\ result[t].outcome = "ok"
          /\ result[t].listed /\ ~result[t].waited
          /\ result[u].op = "get_by_id" /\ result[u].outcome = "ok"
          /\ result[u].waited /\ ~result[u].listed

\* The children property of C2: every folder of by_id lists exactly the items
\* of by_id whose parent is the folder's id, each once.
ChildrenExact(h, m) ==
    \A k \in DOMAIN m :
        IsFolder(h[m[k]]) =>
            LET ch == h[m[k]].children
            IN /\ \A r \in Range(m) : (h[r].parent = k) <=> (r \in Range(ch))
               /\ Range(ch) \subseteq Range(m)
               /\ \A i, j \in DOMAIN ch : i # j => ch[i] # ch[j]

\* C2: every step that is a successful refresh (it sets a new deadline) ends
\* in a state where each folder of by_id, root and trash included, lists
\* exactly the items whose parent is its id, each once.
C2_ChildrenAfterRefresh ==
    [][(refresh_deadline' # refresh_deadline /\ refresh_deadline' # NoDeadline)
          => ChildrenExact(heap', by_id')]_vars

\* A refresh has kept folder f (it was already known at this version) and
\* has replaced document d inside it.
C2_Witness ==
    /\ refresh_deadline # NoDeadline
    /\ "f" \in DOMAIN by_id /\ "d" \in DOMAIN by_id
    /\ by_id["f"] = <<"f", 1>> /\ by_id["d"] = <<"d", 2>>
    /\ heap[by_id["f"]].children = <<by_id["d"]>>
    /\ heap[by_id[TRASH_ID]].children = <<>>

\* C3 (as claimed): a get_by_id call that starts after a mutating call has
\* completed, with no list request sent since, sends a list request.
C3_NextReadRefreshes ==
    \A t \in Tasks : result[t].op = "get_by_id" => ~result[t].stale

\* C4 (as claimed): when delete, update_metadata or upload raises ApiError,
\* the refresh deadline is absent at that moment.
C4_FailedWriteInvalidates ==
    \A t \in Tasks :
        (result[t].op \in Mutating /\ result[t].outcome = "ApiError")
            => result[t].absent

C9_OneHead ==
    \A r \in DOMAIN heap : heap[r].heads <= 1

\* C5: the inode map is a bijection between inodes and item ids: whatever
\* was looked up, listed or refreshed, no item id is behind two inodes.
C5_InodeBijection ==
    \A i, j \in DOMAIN inode_map :
        inode_map[i].id = inode_map[j].id => i = j

\* C6: getattr, lookup, readdir and read on an inode that was never
\* allocated, or whose id a refresh has removed from the item graph, fail
\* with FUSEError(ENOENT).
C6_StaleIsENOENT ==
    (/\ reply.op \in {"getattr", "lookup", "readdir", "read"}
     /\ reply.at \in {"unallocated", "removed"})
        => reply.err = "ENOENT"

\* C7: lookup of the exact name of a child of the parent folder succeeds and
\* returns the entry whose st_ino is the inode bound to the child's id; a
\* name that is neither '.', '..', the mode file's nor a child's fails with
\* ENOENT.
C7_LookupChild ==
    (reply.op = "lookup" /\ reply.in_folder) =>
        /\ reply.child # NoneId =>
              /\ reply.err = "ok"
              /\ reply.st_ino \in DOMAIN inode_map
              /\ inode_map[reply.st_ino] = IdVal(reply.child)
        /\ (reply.child = NoneId /\ ~reply.special) => reply.err = "ENOENT"

\* C10: a write to the mode file whose decoded, stripped and lowercased
\* command is none of refresh, raw, orig, meta fails with EINVAL and leaves
\* the mode and the refresh deadline as they were.
C10_UnknownCommand ==
    [][(/\ reply'.op = "write"
        /\ reply'.to_mode_file
        /\ reply'.decoded
        /\ ~reply'.known)
          => (/\ reply'.err = "EINVAL"
              /\ mode' = mode
              /\ refresh_deadline' = refresh_deadline)]_vars

\* An unknown command was refused while the mode was no longer the one at
\* mount and the item graph was fresh.
C10_Witness ==
    /\ reply.op = "write"
    /\ reply.to_mode_file
    /\ reply.decoded
    /\ ~reply.known
    /\ reply.err = "EINVAL"
    /\ mode = "orig"
    /\ refresh_deadline # NoDeadline

\* The characters of a mode's name.
FSModeChars(m) ==
    CASE m = "meta" -> <<"m", "e", "t", "a">>
      [] m = "raw" -> <<"r", "a", "w">>
      [] m = "orig" -> <<"o", "r", "i", "g">>

\* C11: a write of the command refresh to the mode file invalidates the
\* client's refresh deadline, leaves the mode as it was and returns the length
\* of the whole buffer; a write of raw, orig or meta makes that the mode,
\* leaves the refresh deadline as it was and returns the length of the whole
\* buffer.
C11_WriteEffects ==
    [][(reply'.op = "write" /\ reply'.to_mode_file /\ reply'.decoded) =>
         LET command == lower(strip(reply'.buf))
         IN /\ command = <<"r", "e", "f", "r", "e", "s", "h">> =>
                 /\ refresh_deadline' = NoDeadline
                 /\ mode' = mode
                 /\ reply'.err = "ok"
                 /\ reply'.ret = Len(reply'.buf)
            /\ \A m \in FSMode :
                 command = FSModeChars(m) =>
                   /\ mode' = m
                   /\ refresh_deadline' = refresh_deadline
                   /\ reply'.err = "ok"
                   /\ reply'.ret = Len(reply'.buf)]_vars

\* A mode command with whitespace and capitals around it has changed the
\* mode while a refresh deadline was pending.
C11_Witness ==
    /\ reply.op = "write"
    /\ reply.buf = <<" ", "O", "r", "i", "g">>
    /\ reply.ret = 5
    /\ mode = "orig"
    /\ refresh_deadline # NoDeadline

\* The refresh command has been written while the mode was not the one at
\* mount.
C11_WitnessRefresh ==
    /\ reply.op = "write"
    /\ reply.buf = <<"R", "e", "f", "r", "e", "s", "h", "\n">>
    /\ reply.ret = 8
    /\ mode = "meta"
    /\ refresh_deadline = NoDeadline

\* C12: when the remote list is empty, readdir on the root from offset 0
\* replies exactly the entries '.', '..' and '.mode', in that order.
C12_EmptyRootListing ==
    (/\ reply.op = "readdir"
     /\ reply.inode = ROOT_INODE
     /\ reply.err = "ok"
     /\ keys = <<ROOT_ID, TRASH_ID>>)
    => reply.names = <<".", "..", ".mode">>

\* C12, as the code has it: when the remote list is empty, readdir on the
\* root from offset 0 replies exactly '.', '.mode' and '.trash', in that
\* order (the root has no parent, and the trash folder is its child).
C12_ListingOfEmptyRoot ==
    (/\ reply.op = "readdir"
     /\ reply.inode = ROOT_INODE
     /\ reply.err = "ok"
     /\ keys = <<ROOT_ID, TRASH_ID>>)
    => reply.names = <<".", ".mode", ".trash">>

\* The root of an empty tree has been listed.
C12_Witness ==
    /\ reply.op = "readdir"
    /\ reply.inode = ROOT_INODE
    /\ reply.err = "ok"
    /\ keys = <<ROOT_ID, TRASH_ID>>
    /\ remote = <<>>
    /\ Len(reply.names) = 3

\* C13: a read of the mode file from offset 0 returns the name of the current
\* mode followed by a newline: the mode last written with success, or the
\* mode given at mount when none was written.
C13_ModeFileShowsMode ==
    (reply.op = "read" /\ reply.at = "mode")
    => (reply.err = "ok" /\ reply.ret = mode \o "\n")

\* What the mode file reads as in the modes raw and orig.
C13_ModeFileShowsRawOrig ==
    (reply.op = "read" /\ reply.at = "mode" /\ mode # "meta")
    => (reply.err = "ok" /\ reply.ret = mode \o "\n")

\* C14: no open with O_WRONLY or O_RDWR and no write succeeds on an inode
\* other than the mode file's: the open fails with EPERM (with ENOENT when
\* the inode is not in the inode map) and the write fails with EPERM, and
\* the mode, the refresh deadline and the item graph stay as they were.
C14_ReadOnlyOffModeFile ==
    [][/\ (reply'.op = "open" /\ reply'.writing /\ ~reply'.to_mode_file) =>
            /\ reply'.err = IF reply'.mapped THEN "EPERM" ELSE "ENOENT"
            /\ UNCHANGED <<mode, refresh_deadline, graphVars>>
       /\ (reply'.op = "write" /\ ~reply'.to_mode_file) =>
            /\ reply'.err = "EPERM"
            /\ UNCHANGED <<mode, refresh_deadline, graphVars>>]_vars

\* What holds of them: none succeeds and none changes the mode, the deadline
\* or the graph; the write fails with EPERM on an inode of the inode map.
C14_NothingSucceedsOffModeFile ==
    [][/\ (reply'.op = "open" /\ reply'.writing /\ ~reply'.to_mode_file) =>
            /\ reply'.err = IF reply'.mapped THEN "EPERM" ELSE "ENOENT"
            /\ UNCHANGED <<mode, refresh_deadline, graphVars>>
       /\ (reply'.op = "write" /\ ~reply'.to_mode_file) =>
            /\ reply'.err = IF reply'.mapped THEN "EPERM" ELSE "KeyError"
            /\ UNCHANGED <<mode, refresh_deadline, graphVars>>]_vars

\* C15: when a refresh replaces an item because it observes a version that is
\* new to the store, the entries the data cache holds under the old
\* (id, version) stay in the store, the new object takes nothing from them
\* (it has no raw size, no size and no type), and from then on the next
\* raw_size() on an item without a raw size issues a HEAD request.
C15_OldVersionEntriesUnread ==
    /\ [][\A id \in DocIds :
            (/\ id \in DOMAIN by_id
             /\ id \in DOMAIN by_id'
             /\ by_id'[id] # by_id[id]
             /\ heap'[by_id'[id]].version # heap[by_id[id]].version
             /\ \A k \in DOMAIN datacache :
                   k[1] = id => k[2] < heap'[by_id'[id]].version)
            => /\ datacache' = datacache
               /\ heap'[by_id'[id]].raw_size = 0
               /\ heap'[by_id'[id]].size = 0
               /\ heap'[by_id'[id]].ftype = NoType
               /\ heap'[by_id'[id]].heads = 0]_vars
    /\ [](\A id \in DocIds, response \in HeadResponses :
            (/\ id \in Documents
             /\ id \in Listed
             /\ heap[by_id[id]].raw_size = 0)
            => raw_size(heap[by_id[id]], datacache, response).obj.heads >= 1)

\* The document's second object, built for version 2 while the store held a
\* raw size under version 1, has made its own HEAD request.
C15_Witness ==
    /\ "d" \in Documents
    /\ by_id["d"] = <<"d", 2>>
    /\ heap[by_id["d"]].version = 2
    /\ heap[by_id["d"]].heads = 1
    /\ reply.op = "raw_size"
    /\ <<"d", 1, "raw_size">> \in DOMAIN datacache
    /\ datacache[<<"d", 1, "raw_size">>] = 7
    /\ <<"d", 2, "raw_size">> \in DOMAIN datacache

\* C16: when the metadata query for a document finds no match and the
\* object's download URL is missing or expired, download_url() returns no URL
\* without raising, and a read of the document through the file system in raw
\* or orig mode returns empty bytes.
C16_NotFoundReadsEmpty ==
    (/\ reply.op = "read"
     /\ reply.at = "live"
     /\ mode \in {"raw", "orig"}
     /\ inode_map[reply.fh].id \notin Listed
     /\ ~UrlValid(heap[by_id[inode_map[reply.fh].id]]))
    => /\ ~UrlValid(download_url(heap[by_id[inode_map[reply.fh].id]]))
       /\ reply.err = "ok"
       /\ reply.ret = ""

\* What such a read ends with: an exception, or what the document cache
\* still holds of the document.
C16_NotFoundReadRaises ==
    (/\ reply.op = "read"
     /\ reply.at = "live"
     /\ mode \in {"raw", "orig"}
     /\ inode_map[reply.fh].id \notin Listed
     /\ ~UrlValid(heap[by_id[inode_map[reply.fh].id]]))
    => /\ ~UrlValid(download_url(heap[by_id[inode_map[reply.fh].id]]))
       /\ \/ reply.err \in {"TypeError", "BadZipFile"}
          \/ reply.err = "ok" /\ reply.ret # ""

\* C17: update_items fails with ApiError when the list response is not JSON
\* or has a status outside 2xx, and then leaves the id-to-item map, every
\* children list and the refresh deadline as they were before the call.
C17_BadListResponse ==
    [][(/\ reply'.op = "update_items"
        /\ reply'.body = "not_json" \/ reply'.status \notin 200..299)
       => /\ reply'.err = "ApiError"
          /\ by_id' = by_id
          /\ \A r \in DOMAIN heap :
                r \in DOMAIN heap' /\ heap'[r].children = heap[r].children
          /\ refresh_deadline' = refresh_deadline]_vars

\* The half that holds: a response that is not JSON.
C17_NotJsonResponse ==
    [][(reply'.op = "update_items" /\ reply'.body = "not_json")
       => /\ reply'.err = "ApiError"
          /\ by_id' = by_id
          /\ \A r \in DOMAIN heap :
                r \in DOMAIN heap' /\ heap'[r].children = heap[r].children
          /\ refresh_deadline' = refresh_deadline]_vars

\* The stream was cut at a length that leaves its first entry incomplete.
CutInsideFirstEntry ==
    /\ written # NoArchive
    /\ Len(written.file_data) >= 1
    /\ written.cut \in 1..(Len(LocalEntry(written.file_data[1], written.algo)) - 1)

\* The stream was cut after the file name of its first entry, inside the data.
CutInsidePayload ==
    /\ CutInsideFirstEntry
    /\ written.cut >= 30 + Len(written.file_data[1].fn)

\* C18: on a valid ZIP stream cut at a length that leaves its first entry
\* incomplete, ZipEntry.from_stream does not raise and returns an entry with
\* the file name of the first file and contents = None.
C18_TruncatedFirstEntry ==
    (CutInsideFirstEntry /\ Len(entries) >= 1)
    => /\ entries[1].kind = "entry"
       /\ entries[1].filename = written.file_data[1].fn
       /\ entries[1].contents = NoContents

\* The cuts for which it holds: those that leave the whole header and the file
\* name in the stream.
C18_TruncatedInsidePayload ==
    (CutInsidePayload /\ Len(entries) >= 1)
    => /\ entries[1].kind = "entry"
       /\ entries[1].filename = written.file_data[1].fn
       /\ entries[1].contents = NoContents

\* C19: ZipEntry.from_stream returns None exactly when the stream has no byte
\* left; when bytes are left and the next four are not the signature of a
\* local header, it raises ZipError('Invalid signature'), as it does after the
\* last local entry of a complete archive, where the central directory (or
\* the record that ends an empty one) begins.
C19_EndOfStream ==
    \A i \in DOMAIN entries :
        /\ entries[i].kind = "none" <=> entries[i].signature = <<>>
        /\ (entries[i].signature # <<>> /\ entries[i].signature # LOCAL_SIGNATURE)
           => (/\ entries[i].kind = "error"
               /\ entries[i].msg = "ZipError: Invalid signature")
        /\ (written.cut = NoCut /\ i = Len(written.file_data) + 1)
           => (/\ entries[i].start = Len(LocalEntries(written.file_data, written.algo))
               /\ entries[i].kind = "error"
               /\ entries[i].msg = "ZipError: Invalid signature")

\* Both entries of a complete archive were read, and the call after them met
\* the central directory.
C19_Witness ==
    /\ written # NoArchive
    /\ written.cut = NoCut
    /\ Len(written.file_data) = 2
    /\ Len(entries) = 3
    /\ entries[3].signature = <<80, 75, 1, 2>>
    /\ entries[3].kind = "error"

\* A stream cut to nothing has answered None.
C19_WitnessEmpty ==
    /\ written # NoArchive
    /\ written.cut = 0
    /\ Len(entries) >= 1
    /\ entries[1].kind = "none"

\* C20: on an archive make_zipfile wrote with n entries, stored, deflated,
\* bzip2 or lzma, the k-th call of ZipEntry.from_stream (k <= n) returns the
\* entry with the k-th file's name and contents, starts where the k-th local
\* entry starts and leaves the stream where the next one starts.
C20_RoundTrip ==
    (written # NoArchive /\ written.cut = NoCut)
    => \A k \in DOMAIN entries :
         k <= Len(written.file_data)
         => /\ entries[k].kind = "entry"
            /\ entries[k].filename = written.file_data[k].fn
            /\ entries[k].contents = written.file_data[k].data
            /\ entries[k].start = Offset(written.file_data, written.algo, k)
            /\ entries[k].tell = Offset(written.file_data, written.algo, k + 1)

\* The second of two deflated files, one byte long, was read back.
C20_Witness ==
    /\ written # NoArchive
    /\ written.cut = NoCut
    /\ written.algo = ZIP_DEFLATED
    /\ Len(written.file_data) = 2
    /\ written.file_data[1].data = <<120>>
    /\ Len(entries) >= 2
    /\ entries[2].kind = "entry"
    /\ entries[2].contents = <<120>>
    /\ entries[2].filename = <<98, 99>>

\* The archive on the server lists exactly these files, named after an id of
\* n bytes, in this order.
Lists(n, order) ==
    /\ written # NoArchive
    /\ Len(written.file_data) = Len(order)
    /\ \A k \in DOMAIN order : written.file_data[k].fn = Stem(n) \o Extension(order[k])

\* C21: for an archive whose entries are x.pdf, x.content, x.pagedata in
\* that order, get_file_details on the last NBYTES bytes of the archive
\* returns (pdf, the uncompressed size of x.pdf).
C21_TailProbeFindsPdf ==
    \A n \in StemLengths :
        (/\ reply.op = "get_file_details"
         /\ Lists(n, <<"pdf", "content", "pagedata">>))
        => /\ reply.err = "ok"
           /\ reply.type = "pdf"
           /\ reply.size = Len(written.file_data[1].data)

\* The probe finds the original when the archive lists it after .content and
\* the id has 36 bytes.
C21_PdfAfterContentFound ==
    (/\ reply.op = "get_file_details"
     /\ \/ Lists(36, <<"pagedata", "content", "pdf">>)
        \/ Lists(36, <<"content", "pagedata", "pdf">>))
    => /\ reply.err = "ok"
       /\ reply.type = "pdf"
       /\ reply.size = Len(written.file_data[3].data)

\* No file of the archive on the server is named .content.
NoContentFile ==
    \A k \in DOMAIN written.file_data :
        ~endswith(written.file_data[k].fn, Extension("content"))

\* C27: when the tail range holds no central-directory record at the start
\* offset get_file_details computes (no .content name in it, or a file name
\* stem that is not 36 bytes long), get_file_details returns (unknown, None)
\* and does not raise; it returns (notes, None) only after it has parsed
\* records.
C27_UnparseableIsUnknown ==
    reply.op = "get_file_details"
    => /\ reply.err = "ok"
       /\ reply.parsed = 0 => (reply.type = "unknown" /\ reply.size = NoSize)
       /\ reply.type = "notes" => reply.parsed > 0

\* Without a .content name in the range the result is (unknown, None), and
\* no probe of the archives zipfile writes raises.
C27_NoContentIsUnknown ==
    reply.op = "get_file_details"
    => /\ reply.err = "ok"
       /\ NoContentFile => (reply.type = "unknown" /\ reply.size = NoSize)

\* C23: in every state, during and after a failed refresh included, by_id
\* has the keys '' and 'trash', bound to the two VirtualFolder objects
\* Client.__init__ created.
C23_VirtualFoldersStay ==
    /\ {ROOT_ID, TRASH_ID} \subseteq DOMAIN by_id
    /\ by_id[ROOT_ID] = RootRef
    /\ by_id[TRASH_ID] = TrashRef
    /\ {RootRef, TrashRef} \subseteq DOMAIN heap
    /\ heap[RootRef].type = VIRTUAL /\ heap[RootRef].id = ROOT_ID
    /\ heap[TrashRef].type = VIRTUAL /\ heap[TrashRef].id = TRASH_ID

\* A refresh has failed after it had emptied the children of the virtual
\* folders, in a graph an earlier refresh had filled and whose items the
\* remote list names no longer.
C23_Witness ==
    /\ reply.op = "update_items"
    /\ reply.err = "TypeError"
    /\ "d" \in DOMAIN by_id
    /\ remote = <<>>
    /\ heap[RootRef].children = <<>>
    /\ by_id[ROOT_ID] = RootRef /\ by_id[TRASH_ID] = TrashRef

\* C24: every step that is a successful refresh ends in a state where the
\* keys of by_id are the ids of the remote list together with '' and
\* 'trash': ids seen for the first time are in, ids no longer listed are out.
C24_KeysAreTheListedIds ==
    [][(refresh_deadline' # refresh_deadline /\ refresh_deadline' # NoDeadline)
          => /\ DOMAIN by_id' =
                   {remote'[i].ID : i \in DOMAIN remote'} \cup {ROOT_ID, TRASH_ID}
             /\ Range(keys') = DOMAIN by_id']_vars

\* A refresh has dropped document d, which an earlier refresh had inserted,
\* and has kept folder f.
C24_Witness ==
    /\ refresh_deadline # NoDeadline
    /\ gen["d"] >= 1
    /\ Listed = {"f"}
    /\ DOMAIN by_id = {ROOT_ID, TRASH_ID, "f"}

\* The ids of a sequence of references, without the trash folder (which no
\* remote list names).
ListedIds(refs) ==
    LET ids == [i \in DOMAIN refs |-> refs[i][1]]
    IN SelectSeq(ids, LAMBDA id : id # TRASH_ID)

\* The ids the list names with parent p, in the order of the list.
RemoteChildren(list, p) ==
    LET under == SelectSeq(list, LAMBDA md : md.Parent = p)
    IN [i \in DOMAIN under |-> under[i].ID]

\* C26: every step that is a successful refresh ends in a state where the
\* children of each folder are in the order in which the remote list given
\* to that refresh names them.
C26_ChildrenInRemoteOrder ==
    [][(refresh_deadline' # refresh_deadline /\ refresh_deadline' # NoDeadline)
          => \A k \in DOMAIN by_id' :
                IsFolder(heap'[by_id'[k]])
                => ListedIds(heap'[by_id'[k]].children) = RemoteChildren(remote', k)]_vars

\* The children of a folder are the items the list names under it, in the
\* order in which their ids became keys of by_id.
C26_ChildrenInKeyOrder ==
    [][(refresh_deadline' # refresh_deadline /\ refresh_deadline' # NoDeadline)
          => \A k \in DOMAIN by_id' :
                IsFolder(heap'[by_id'[k]])
                => [i \in DOMAIN heap'[by_id'[k]].children |->
                       heap'[by_id'[k]].children[i][1]]
                   = SelectSeq(keys', LAMBDA id : heap'[by_id'[id]].parent = k)]_vars

\* C30: raw_size(), size() and type() return values of the item's current
\* version: when the metadata query inside download_url gives an Item object
\* a higher version, the object holds no raw size and no type from the older
\* version afterwards (a value it holds was fetched by a request made for
\* the new version), and the call that made the query returns none.
C30_ValuesOfCurrentVersion ==
    [][\A id \in DocIds :
          (/\ id \in DOMAIN by_id
           /\ id \in DOMAIN by_id'
           /\ by_id'[id] = by_id[id]
           /\ heap'[by_id[id]].version > heap[by_id[id]].version)
          => /\ heap'[by_id[id]].raw_size # 0 => heap'[by_id[id]].heads >= 1
             /\ heap'[by_id[id]].ftype # NoType => heap'[by_id[id]].ranges >= 1
             /\ (reply'.op = "raw_size" /\ reply'.ret # 0)
                   => heap'[by_id[id]].heads >= 1]_vars

\* A refresh that builds a new object for a new version leaves the new
\* object without values of the old one, unless the data cache holds values
\* stored under the new version.
C30_ReplacedObjectStartsEmpty ==
    [][\A id \in DocIds :
          (/\ id \in DOMAIN by_id
           /\ id \in DOMAIN by_id'
           /\ by_id'[id] # by_id[id]
           /\ \A k \in DOMAIN datacache : k[1] = id => k[2] # heap'[by_id'[id]].version)
          => /\ heap'[by_id'[id]].raw_size = 0
             /\ heap'[by_id'[id]].size = 0
             /\ heap'[by_id'[id]].ftype = NoType]_vars

\* C22: update_metadata, delete and upload_raw on a virtual item (the root
\* or the trash folder) fail with VirtualItemError, and no request is sent.
C22_VirtualItemError ==
    \A t \in Tasks :
        (result[t].op \in MutatingMethods /\ result[t].virtual)
        => /\ result[t].outcome = "VirtualItemError"
           /\ ~result[t].requested

\* The three calls on a virtual item send no request; they end with the
\* AttributeError of the lock test.
C22_VirtualItemRaises ==
    \A t \in Tasks :
        (result[t].op \in Guarded /\ result[t].virtual)
        => /\ result[t].outcome = "AttributeError"
           /\ ~result[t].requested

\* The task is inside a guarded method of the object.
Inside(t, ref) == pc[t] = "inside" /\ call[t].op = "guarded" /\ call[t].ref = ref

\* C28: for each Item object at most one task at a time is inside its
\* guarded methods, and that task owns the object's lock; the task inside
\* enters a nested guarded method without parking and without touching the
\* lock; a task that has left, by return, exception or cancellation, owns no
\* lock and waits for none, and a lock is held only by a task inside.
C28_ItemLock ==
    /\ [][\A t \in Tasks :
            (/\ pc[t] = "inside"
             /\ call'[t].op = "guarded"
             /\ Len(call'[t].stack) > Len(call[t].stack))
            => (pc'[t] = "inside" /\ locks' = locks)]_vars
    /\ [](\A ref \in DOMAIN heap :
            /\ Cardinality({t \in Tasks : Inside(t, ref)}) <= 1
            /\ \A t \in Tasks : Inside(t, ref) => LockOf(ref).owner = t)
    /\ [](\A ref \in DOMAIN locks :
            /\ locks[ref].owner \in Tasks
            /\ Inside(locks[ref].owner, ref)
            /\ \A i \in DOMAIN locks[ref].waiters :
                  /\ pc[locks[ref].waiters[i]] = "lock_wait"
                  /\ call[locks[ref].waiters[i]].ref = ref)
    /\ [](\A t \in Tasks :
            pc[t] = "idle"
            => \A ref \in DOMAIN locks :
                  locks[ref].owner # t /\ t \notin Range(locks[ref].waiters))

\* One task is three methods deep in document d (_get_details, raw_size,
\* download_url) while the other is parked on the lock of d.
C28_Witness ==
    \E t, u \in Tasks :
        /\ Inside(t, <<"d", 1>>)
        /\ call[t].stack = <<"_get_details", "raw_size", "download_url">>
        /\ pc[u] = "lock_wait"
        /\ LockOf(<<"d", 1>>) = [owner |-> t, waiters |-> <<u>>]

\* A call has ended with an exception and the task that was parked on the
\* lock is inside the object now, while the first task is inside another.
C28_WitnessHandover ==
    \E t, u \in Tasks :
        /\ t # u
        /\ Inside(t, <<"e", 1>>)
        /\ Inside(u, <<"d", 1>>)
        /\ LockOf(<<"d", 1>>).owner = u
        /\ LockOf(<<"e", 1>>).owner = t

\* C29: every client get_client returns has had its user token renewed in
\* this session, whether the calls come together at startup or after a call
\* that failed with AuthError; and at most one Client is ever built.
C29_ClientIsRenewed ==
    /\ client.built <= 1
    /\ \A t \in Tasks :
          (result[t].op = "get_client" /\ result[t].outcome = "ok")
          => result[t].renewed

\* At most one Client is built, and the call that built it returns it only
\* after the renewal has succeeded.
C29_OneClient ==
    /\ client.built <= 1
    /\ \A t \in Tasks : pc[t] = "renew" => client.built = 1
    /\ \A t \in Tasks :
          (pc[t] = "idle" /\ call[t].op = "none" /\ result[t].op = "get_client"
           /\ result[t].outcome = "ok" /\ result[t].renewed)
          => client.renewed

\* A refresh by task t ends in this step.
RefreshEnds(t) == pc[t] = "gbi_list" /\ pc'[t] = "idle"

\* C25: the refresh deadline is set only by a refresh that completes
\* successfully; a refresh that fails or is cancelled at its await keeps the
\* absent or expired deadline and releases update_lock, so a get_by_id that
\* waits for the lock gets it (unless it is cancelled itself), and one that
\* holds the lock with the deadline absent or expired starts a new refresh.
C25_DeadlineOnlyOnSuccess ==
    /\ [][/\ refresh_deadline' # refresh_deadline
             => /\ refresh_deadline' = clock + FILE_LIST_VALIDITY
                /\ \E t \in Tasks : /\ RefreshEnds(t)
                                    /\ result'[t].outcome \notin {"ApiError", "Cancelled"}
          /\ \A t \in Tasks :
                RefreshEnds(t)
                => /\ update_lock'.owner # t
                   /\ result'[t].outcome \in {"ApiError", "Cancelled"}
                      => /\ refresh_deadline' = refresh_deadline
                         /\ Invalid(refresh_deadline', clock')]_vars
    /\ \A t \in Tasks :
          /\ pc[t] = "gbi_wait"
                ~> (pc[t] = "gbi_locked" \/ result[t].outcome = "Cancelled")
          /\ (pc[t] = "gbi_locked" /\ Expired) ~> pc[t] = "gbi_list"
          /\ pc[t] = "gbi_list" ~> (pc[t] = "idle" /\ update_lock.owner # t)

\* Task t1's refresh failed or was cancelled, and task t2, whose get_by_id
\* waited for the lock meanwhile, has the lock and has started a new refresh.
C25_Witness ==
    /\ pc["t1"] = "idle"
    /\ result["t1"].op = "get_by_id"
    /\ result["t1"].outcome \in {"ApiError", "Cancelled"}
    /\ result["t1"].listed
    /\ pc["t2"] = "gbi_list"
    /\ call["t2"].waited
    /\ update_lock.owner = "t2"
    /\ Expired

\* The lock of an object after the step.
LockAfter(ref) == IF ref \in DOMAIN locks' THEN locks'[ref] ELSE Unlocked

\* An object with its list of children left out.
Fields(o) == [o EXCEPT !.children = <<>>]

\* C33: a successful refresh keeps the object of every id it lists at the
\* version the object has, with its lock and all its fields but the children
\* unchanged, and replaces the object of an id listed at another version by
\* a new one built from the remote metadata; so as long as an id stays in
\* the map at one version, it stays bound to one object.
C33_SameVersionSameObject ==
    /\ [][(refresh_deadline' # refresh_deadline /\ refresh_deadline' # NoDeadline)
          => \A id \in (DOMAIN by_id) \cap Listed :
                /\ id \in DOMAIN by_id'
                /\ IF heap[by_id[id]].version = Entry(id).Version
                   THEN /\ by_id'[id] = by_id[id]
                        /\ Fields(heap'[by_id'[id]]) = Fields(heap[by_id[id]])
                        /\ LockAfter(by_id'[id]) = LockOf(by_id[id])
                   ELSE /\ by_id'[id] # by_id[id]
                        /\ by_id'[id] \notin DOMAIN heap
                        /\ Fields(heap'[by_id'[id]]) = from_metadata(Entry(id))]_vars
    /\ [][\A id \in (DOMAIN by_id) \cap (DOMAIN by_id') :
            heap'[by_id'[id]].version = heap[by_id[id]].version
            => by_id'[id] = by_id[id]]_vars

\* The second refresh has kept the object built for document d by the first
\* one, with the raw size cached in it and its lock held by task t1, and has
\* replaced the object of folder f, which changed remotely.
C33_Witness ==
    /\ refresh_deadline # NoDeadline
    /\ "d" \in DOMAIN by_id /\ "f" \in DOMAIN by_id
    /\ by_id["d"] = <<"d", 1>>
    /\ heap[by_id["d"]].raw_size > 0
    /\ LockOf(by_id["d"]).owner = "t1"
    /\ by_id["f"] = <<"f", 2>>
    /\ heap[by_id["f"]].version = Entry("f").Version
    /\ heap[by_id["d"]].version = Entry("d").Version

\* The calls of Item.delete that have ended and found the graph the same
\* from the start of the walk to their end, but for those a failed list
\* request has ended.
DeleteEnded(t) ==
    /\ result[t].op = "Item.delete"
    /\ result[t].stable
    /\ ~(result[t].outcome = "ApiError" /\ result[t].sent = "none")

C32_WitnessMoved ==
    /\ result["t1"].op = "Item.delete"
    /\ result["t1"].outcome = "ok"
    /\ result["t1"].sent = "update-status"
    /\ result["t1"].before = ROOT_ID
    /\ result["t1"].after = TRASH_ID
    /\ result["t1"].stable

\* A walk that looked up an id no longer in the map: KeyError, no request.
C32_WitnessKeyError ==
    /\ result["t1"].op = "Item.delete"
    /\ result["t1"].outcome = "KeyError"

\* The task is parked on a lock.
Parked(t) == pc[t] \in {"gbi_wait", "del_wait", "lock_wait"}

\* The owner of the lock the task is parked on.
ParkedOn(t) ==
    IF pc[t] = "lock_wait" THEN LockOf(call[t].ref).owner ELSE update_lock.owner

\* C31: among tasks running get_by_id, Item.delete and other methods under
\* an item's lock, a task that holds update_lock is never parked on an
\* item's lock; a parked task waits for a lock another task holds, and that
\* task is not parked on a lock of the first; and when requests are answered
\* every parked task gets its lock.
C31_NoDeadlock ==
    /\ [](\A t \in Tasks :
            /\ update_lock.owner = t => pc[t] # "lock_wait"
            /\ Parked(t)
                  => /\ ParkedOn(t) \in Tasks \ {t}
                     /\ ~(Parked(ParkedOn(t)) /\ ParkedOn(ParkedOn(t)) = t))
    /\ \A t \in Tasks : Parked(t) ~> ~Parked(t)

\* Task t2 holds the lock of document d inside Item.delete and is parked on
\* update_lock, which t1 holds while its list request is in flight.
C31_Witness ==
    /\ pc["t2"] = "del_wait"
    /\ LockOf(call["t2"].ref).owner = "t2"
    /\ update_lock.owner = "t1"
    /\ pc["t1"] \in {"gbi_list", "del_list"}

\* Task t1 is parked on the lock of an item that t2 holds inside Item.delete
\* while t2 holds update_lock for the walk.
C31_WitnessChain ==
    /\ pc["t1"] = "lock_wait"
    /\ ParkedOn("t1") = "t2"
    /\ update_lock.owner = "t2"
    /\ pc["t2"] \in {"del_locked", "del_list"}

====
